---- MODULE Spec2Model ----
(***************************************************************************)
(* A model of the OCR-Receipts content processor.                          *)
(*                                                                         *)
(*   Spec           process_content (scripts/content_processor/            *)
(*                  process_extracted_content.py): the correction phases   *)
(*                  and the grand-total loop, one action per operator      *)
(*                  answer.                                                *)
(*   SpecExtract    get_items (scripts/content_processor/                  *)
(*                  process_raw_content.py): get_split_text, then one      *)
(*                  action per group of rows.                              *)
(*   SpecNormalize  replace_invalid_chars (same file): the entries of the  *)
(*                  mapper applied as written, and in any order.           *)
(*   SpecShop       get_shop_name (same file): the SHOPS table searched in *)
(*                  its order, then the operator's entry.                  *)
(*   SpecDate       get_shopping_date and get_date (same file).            *)
(*   SpecChecks     is_total_price_correct, is_final_price_correct and     *)
(*                  get_total_sum_diff called on a record.                 *)
(*   SpecSave       save_content_in_db (save_content.py) on the tables of  *)
(*                  database.py, as the application calls it.              *)
(*   SpecImage      read_image (scripts/process_image.py) and              *)
(*                  get_img_content (content_detector/process_image.py).   *)
(*   SpecValues     get_new_values called on its own.                      *)
(*   SpecLive       Spec with an operator who answers every question.      *)
(*                                                                         *)
(* Numbers.  Python floats are modelled as integers counted in mills       *)
(* (1/1000): 0.01 is 10, a quantity of 1 is 1000.  round(x, 2) therefore   *)
(* is a real rounding (to a multiple of 10 mills), and an operator may     *)
(* type an amount with a third decimal.  The cells that are not numbers    *)
(* (NaN, None, False, the empty answer) are the sentinels below.           *)
(***************************************************************************)
EXTENDS Integers, Sequences, FiniteSets, TLC

\* ------------------------------------------------------------ sentinels
\* numpy NaN: the value pandas gives a cell with no value (isna is true)
NaN == -999001
\* Python None
NoneV == -999002
\* Python False: the "unset" value left by a failed coercion
FalseV == -999003
\* the empty string typed at "Enter a new value or press Enter to skip"
SkipV == -999004

\* ------------------------------------------------------------ bounds
\* longest item list of an input record
MaxItems == 2
\* how many times the operator may make a loop go round again (rejected
\* correction rounds and corrections of the total together)
MaxRetries == 1

\* lines of a text of rows of every kind
MaxLines == 3

\* lines of a text of item, discount and final price rows
MaxBlockLines == 5

\* characters of a text given to replace_invalid_chars
MaxTextLen == 2

\* lines of a text given to get_shop_name
MaxShopLines == 2

\* shop names the operator enters in one run of get_shop_name
MaxShopInputs == 2

\* lines of a text given to get_shopping_date
MaxDateLines == 2

\* dates the operator enters in one run of get_date
MaxDateInputs == 2

\* items of a record saved; calls of save_content_in_db in one run of the
\* application
MaxSaveItems == 2
MaxSaves == 2

\* rounds of get_new_values called on its own
MaxRounds == 2

\* ------------------------------------------------------------ arithmetic
Abs(x) == IF x < 0 THEN -x ELSE x

\* False is 0 in Python arithmetic and comparisons
Num(v) == IF v = FalseV THEN 0 ELSE v

\* x rounded to the nearest multiple of u, ties to even (Python 3 round)
RoundTo(x, u) ==
    LET a  == Abs(x)
        r  == a % u
        lo == a - r
        up == IF 2 * r > u THEN lo + u
              ELSE IF 2 * r < u THEN lo
              ELSE IF (lo \div u) % 2 = 0 THEN lo ELSE lo + u
    IN  IF x < 0 THEN -up ELSE up

\* round(m, 2) of an amount in mills
Round2(m) == RoundTo(m, 10)

\* round(qty * unit_price, 2): the product of two mill counts is in 1e-6
CalcTotalPrice(qty, unit_price) ==
    IF qty = NaN \/ unit_price = NaN THEN NaN
    ELSE RoundTo(Num(qty) * Num(unit_price), 10000) \div 1000

\* round(total_price - total_discount, 2)
CalcFinalPrice(total_price, total_discount) ==
    IF total_price = NaN \/ total_discount = NaN THEN NaN
    ELSE Round2(Num(total_price) - Num(total_discount))

\* Python/numpy ==: NaN equals nothing, False equals 0
PyEq(a, b) == a # NaN /\ b # NaN /\ Num(a) = Num(b)

is_final_price_correct(data) ==
    PyEq(CalcFinalPrice(data.total_price, data.total_discount), data.final_price)

\* a check that passes whatever the operator typed
is_total_price_correct_Always(data) == TRUE

is_total_price_correct(data) ==
    PyEq(CalcTotalPrice(data.qty, data.unit_price), data.total_price)

\* pd.isna
IsNa(v) == v = NaN \/ v = NoneV

\* the numeric columns of the items table, in column order
Props == <<"qty", "unit_price", "total_price", "total_discount", "final_price">>

RECURSIVE SumFinal(_)
SumFinal(items) ==
    IF items = <<>> THEN 0
    ELSE Num(Head(items).final_price) + SumFinal(Tail(items))

RECURSIVE SumTotal(_)
SumTotal(items) ==
    IF items = <<>> THEN 0
    ELSE Num(Head(items).total_price) + SumTotal(Tail(items))

\* the difference without abs
get_total_sum_diff_Signed(total_sum, items) ==
    Round2(Num(total_sum) - SumFinal(items))

\* the difference taken over the column total_price
get_total_sum_diff_TotalPrice(total_sum, items) ==
    Round2(Abs(Num(total_sum) - SumTotal(items)))

\* get_total_sum_diff: round(abs(extr_total_sum - calc_total_sum), 2)
get_total_sum_diff(total_sum, items) ==
    Round2(Abs(Num(total_sum) - SumFinal(items)))

\* a table with the rows in the opposite order
ToFrame_Reversed(items) ==
    [i \in DOMAIN items |-> items[Len(items) + 1 - i]]

\* pd.DataFrame(content['items']): a column of None alone stays None (dtype
\* object); next to numbers None becomes NaN
ToFrame(items) ==
    IF \E i \in DOMAIN items : ~IsNa(items[i].total_discount)
    THEN [i \in DOMAIN items |->
            IF items[i].total_discount = NoneV
            THEN [items[i] EXCEPT !.total_discount = NaN] ELSE items[i]]
    ELSE items

\* (df == False): a cell equal to False, which 0 and 0.0 are too
IsFalseCell(v) == v = FalseV \/ v = 0

RECURSIVE SeqOfSet(_)
SeqOfSet(S) ==
    IF S = {} THEN <<>>
    ELSE LET m == CHOOSE x \in S : \A y \in S : x <= y
         IN  <<m>> \o SeqOfSet(S \ {m})

RECURSIVE Flatten(_)
Flatten(ss) == IF ss = <<>> THEN <<>> ELSE Head(ss) \o Flatten(Tail(ss))

\* the cells correct_missing_properties asks for: row by row, and in a row
\* column by column
MissingCells(df) ==
    Flatten([i \in DOMAIN df |->
        SelectSeq([k \in DOMAIN Props |-> <<i, Props[k]>>],
                  LAMBDA c : IsFalseCell(df[i][c[2]]))])

\* every row taken for a discounted row with a wrong final price
WrongDiscounted_AllRows(df) == SeqOfSet(DOMAIN df)

\* the rows correct_discounted_items corrects
WrongDiscounted(df) ==
    SeqOfSet({i \in DOMAIN df :
        /\ ~IsNa(df[i].total_discount)
        /\ ~PyEq(df[i].final_price,
                 CalcFinalPrice(df[i].total_price, df[i].total_discount))})

\* every row taken for a wrong one
WrongItems_All(df) == SeqOfSet(DOMAIN df)

\* the rows correct_wrong_items corrects
WrongItems(df) ==
    SeqOfSet({i \in DOMAIN df :
        ~PyEq(df[i].total_price, CalcTotalPrice(df[i].qty, df[i].unit_price))})

\* a round in which an empty answer keeps what the dictionary holds already
RoundValues_KeepEntered(item, props, answers, initial_values) ==
    [p \in props \cup DOMAIN initial_values |->
        IF p \in props /\ answers[p] # SkipV THEN answers[p]
        ELSE IF p \in DOMAIN initial_values THEN initial_values[p]
        ELSE item[p]]

\* get_new_values, one round: the dictionary built from the answers
RoundValues(item, props, answers, initial_values) ==
    [p \in props \cup DOMAIN initial_values |->
        IF p \in props
        THEN IF answers[p] = SkipV THEN item[p] ELSE answers[p]
        ELSE initial_values[p]]

\* df.loc[i, keys] = values, then df.update: NaN never overwrites
Updated(item, values) ==
    [p \in DOMAIN item |->
        IF p \in DOMAIN values /\ ~IsNa(values[p]) THEN values[p] ELSE item[p]]



\* ------------------------------------------------------------ text
\* A text is a sequence of characters, each a string of length one; "\n"
\* ends a line.
Str_OPUST == <<"O", "P", "U", "S", "T">>

Digit == {"0", "1", "2", "3", "4", "5", "6", "7", "8", "9"}

\* the letters that occur in the texts of the model
Letter == {"M", "i", "l", "k", "A", "x", "t", "O", "P", "U", "S", "T"}

\* \w, \s, \S and . over the characters of the model
Word == Digit \cup Letter
Space == {" "}
NonSpace == Word \cup {".", ",", "-"}
AnyChar == NonSpace \cup Space

Min(a, b) == IF a < b THEN a ELSE b

SubStr(s, from, to) == IF to < from THEN <<>> ELSE SubSeq(s, from, to)

\* the n leading characters of s from position p on that are in cls
RECURSIVE MaxRun(_, _, _)
MaxRun(s, p, cls) ==
    IF p > Len(s) \/ s[p] \notin cls THEN 0 ELSE 1 + MaxRun(s, p + 1, cls)

\* Python's backtracking matcher, for a pattern that is a sequence of
\* greedy repetitions [cls, lo, hi] of a character class.  An element with
\* dep = "lo" may be non-empty only after a non-empty predecessor, and then
\* holds lo characters at least: the two together are an optional group
\* (a b{lo,hi})?.  An element with dep = "hi" may be non-empty only after a
\* non-empty predecessor, and may be empty then too: (a+ b{0,hi})?.
\* The result is the sequence of positions where the elements end, or
\* NoMatch.
NoMatch == <<-1>>

\* hi < 0: no upper limit
Rep(cls, lo, hi) == [cls |-> cls, lo |-> lo, hi |-> hi, dep |-> ""]
Dep(cls, lo, hi, dep) == [cls |-> cls, lo |-> lo, hi |-> hi, dep |-> dep]
Lit(c) == Rep({c}, 1, 1)
Plus(cls) == Rep(cls, 1, -1)
Star(cls) == Rep(cls, 0, -1)
Opt(cls) == Rep(cls, 0, 1)

RECURSIVE MatchFrom(_, _, _, _, _)
RECURSIVE TryLen(_, _, _, _, _, _)
MatchFrom(pat, k, s, p, prev) ==
    IF k > Len(pat) THEN <<>>
    ELSE LET e  == pat[k]
             lo == IF e.dep = "lo" /\ prev = 0 THEN 0 ELSE e.lo
             hi == IF e.dep # "" /\ prev = 0 THEN 0
                   ELSE IF e.hi < 0 THEN Len(s) ELSE e.hi
         IN  TryLen(pat, k, s, p, Min(hi, MaxRun(s, p, e.cls)), lo)

TryLen(pat, k, s, p, n, lo) ==
    IF n < lo THEN NoMatch
    ELSE LET rest == MatchFrom(pat, k + 1, s, p + n, n)
         IN  IF rest # NoMatch THEN <<p + n - 1>> \o rest
             ELSE TryLen(pat, k, s, p, n - 1, lo)

\* pattern.match(s): the match at the start of s
ReMatch(pat, s) == MatchFrom(pat, 1, s, 1, 0)

\* pattern.search(s): the match at the leftmost position that has one; the
\* result is <<start>> \o ends, or NoMatch
RECURSIVE SearchFrom(_, _, _)
SearchFrom(pat, s, p) ==
    IF p > Len(s) + 1 THEN NoMatch
    ELSE LET m == MatchFrom(pat, 1, s, p, 0)
         IN  IF m # NoMatch THEN <<p>> \o m ELSE SearchFrom(pat, s, p + 1)

ReSearch(pat, s) == SearchFrom(pat, s, 1)

\* 'sub in s'
Contains(s, sub) ==
    \E p \in 1..(Len(s) - Len(sub) + 1) : SubSeq(s, p, p + Len(sub) - 1) = sub

\* text.split('\n')
RECURSIVE Split(_)
Split(s) ==
    LET n == MaxRun(s, 1, AnyChar)
    IN  IF n = Len(s) THEN <<s>>
        ELSE <<SubStr(s, 1, n)>> \o Split(SubStr(s, n + 2, Len(s)))

\* float(string) for the strings get_qty and get_price build, digits "."
\* digits: the value in mills, or FalseV where float raises ValueError
RECURSIVE DigitsValue(_)
DigitsValue(ds) ==
    IF ds = <<>> THEN 0
    ELSE 10 * DigitsValue(SubStr(ds, 1, Len(ds) - 1))
         + (CHOOSE d \in 0..9 : ToString(d) = ds[Len(ds)])

AllIn(s, cls) == \A i \in DOMAIN s : s[i] \in cls

Float(string) ==
    LET n     == MaxRun(string, 1, Word)
        whole == SubStr(string, 1, n)
        frac  == SubStr(string, n + 2, Len(string))
    IN  IF whole = <<>> \/ ~AllIn(whole, Digit) \/ ~AllIn(frac, Digit) \/ Len(frac) > 3
        THEN FalseV
        ELSE 1000 * DigitsValue(whole)
             + (CASE Len(frac) = 0 -> 0
                  [] Len(frac) = 1 -> 100 * DigitsValue(frac)
                  [] Len(frac) = 2 -> 10 * DigitsValue(frac)
                  [] Len(frac) = 3 -> DigitsValue(frac))

\* get_qty: (\d+)([,. ]+(\d{,3}))? matched at the start of the string
QtyPattern == <<Plus(Digit), Star({",", ".", " "}), Dep(Digit, 0, 3, "hi")>>

get_qty(string) ==
    LET m == ReMatch(QtyPattern, string)
    IN  IF m[2] = m[1]
        THEN SubStr(string, 1, m[1])
        ELSE SubStr(string, 1, m[1]) \o <<".">> \o SubStr(string, m[2] + 1, m[3])

\* get_price: (\w+)[,. ]+(\w{,2}), after OPUST.* for a discount, searched
\* in the string; NoMatch where pattern.search finds nothing and .groups()
\* raises AttributeError
PricePattern == <<Plus(Word), Plus({",", ".", " "}), Rep(Word, 0, 2)>>

DiscountPattern ==
    <<Lit("O"), Lit("P"), Lit("U"), Lit("S"), Lit("T"), Star(AnyChar)>> \o PricePattern

\* get_price with the price pattern for a discount row as well
get_price_PricePatternOnly(string, is_discount) ==
    LET m == ReSearch(PricePattern, string)
    IN  IF m = NoMatch THEN NoMatch
        ELSE SubStr(string, m[1], m[2]) \o <<".">> \o SubStr(string, m[3] + 1, m[4])

get_price(string, is_discount) ==
    LET m     == ReSearch(IF is_discount THEN DiscountPattern ELSE PricePattern, string)
        \* where group 1 starts, and the index in m of its end
        from  == IF is_discount THEN m[7] + 1 ELSE m[1]
        k     == IF is_discount THEN 8 ELSE 2
    IN  IF m = NoMatch THEN NoMatch
        ELSE SubStr(string, from, m[k]) \o <<".">> \o SubStr(string, m[k + 1] + 1, m[k + 2])

\* get_item, lines 236-248: the item grammar, matched at the start of a row
ItemPattern ==
    <<Plus(AnyChar),                                    \* (.+)
      Plus(Space), Rep(NonSpace, 1, 2), Plus(Space),    \* \s+\S{1,2}\s+
      Plus(Digit), Opt({",", ".", " "}),                \* (\d+([,. ]\d+)?)
      Dep(Digit, 1, -1, "lo"),
      Lit(" "), Opt({"x"}),                             \* \sx?
      Plus(Digit \cup {"t"}), Rep({",", "."}, 1, 1),    \* ([t\d]+[,.]\s?\d{,2})
      Opt(Space), Rep(Digit, 0, 2),
      Plus(Space),                                      \* \s+
      Plus(Digit), Rep({",", "."}, 1, 1),               \* (\d+[,.]\s?\d{,2})
      Opt(Space), Rep(Digit, 0, 2)>>

\* None
NoRecord == [none |-> TRUE]

\* get_item, lines 246-258: None, or the properties as strings
get_item_strings(text) ==
    LET m == ReMatch(ItemPattern, text)
    IN  IF m = NoMatch THEN NoRecord
        ELSE [name |-> SubStr(text, 1, m[1]),
              qty |-> get_qty(SubStr(text, m[4] + 1, m[7])),
              unit_price |-> get_price(SubStr(text, m[9] + 1, m[13]), FALSE),
              total_price |-> get_price(SubStr(text, m[14] + 1, m[18]), FALSE)]

\* string_to_float asking the operator whatever do_correct says
string_to_float_AlwaysAsk(string, do_correct, entered) ==
    IF Float(string) # FalseV THEN Float(string) ELSE entered

\* string_to_float: the number, or on ValueError the number the operator
\* enters (do_correct) or False
string_to_float(string, do_correct, entered) ==
    IF Float(string) # FalseV THEN Float(string)
    ELSE IF do_correct THEN entered ELSE FalseV

\* get_item, lines 250-268; entered: what the operator enters where asked
get_item(text, do_correct, entered) ==
    LET strings == get_item_strings(text)
        num(key) == string_to_float(strings[key], do_correct, entered[key])
    IN  IF strings = NoRecord THEN NoRecord
        ELSE [name |-> strings.name,
              qty |-> num("qty"),
              unit_price |-> num("unit_price"),
              total_price |-> num("total_price"),
              total_discount |-> 0,
              final_price |-> num("total_price")]

\* get_split_text, lines 85-96, from line i on with the groups made so far.
\* text_split_new[-1] of an empty list and text_split[i + 1] past the end
\* raise IndexError
RECURSIVE SplitLoop(_, _, _)
SplitLoop(text_split, i, text_split_new) ==
    IF i > Len(text_split) THEN [groups |-> text_split_new, err |-> ""]
    ELSE IF Contains(text_split[i], Str_OPUST)
    THEN IF text_split_new = <<>> \/ i + 1 > Len(text_split)
         THEN [groups |-> text_split_new, err |-> "IndexError"]
         ELSE SplitLoop(text_split, i + 2,
                  [text_split_new EXCEPT ![Len(text_split_new)] =
                      @ \o <<text_split[i], text_split[i + 1]>>])
    ELSE SplitLoop(text_split, i + 1, Append(text_split_new, <<text_split[i]>>))

\* the lines of a text that are not empty
NonEmptyLines(text) == SelectSeq(Split(text), LAMBDA line : line # <<>>)

get_split_text(text) == SplitLoop(NonEmptyLines(text), 1, <<>>)

\* replace_invalid_chars, lines 42-47: the mapper as the pairs <<wrong,
\* correct>>, in the order the loops visit them
\* a mapper whose correct character for '~' is itself a wrong character
Mapper_Chained ==
    <<<<"(", "1">>, <<"{", "1">>,
      <<"«", "x">>, <<"¥", "x">>, <<"#", "x">>,
      <<"~", "(">>,
      <<"?", "P">>>>

Mapper ==
    <<<<"(", "1">>, <<"{", "1">>,
      <<"«", "x">>, <<"¥", "x">>, <<"#", "x">>,
      <<"~", "-">>,
      <<"?", "P">>>>

\* str.replace(char, valid)
Replace(s, char, valid) == [i \in DOMAIN s |-> IF s[i] = char THEN valid ELSE s[i]]

RECURSIVE ReplaceFrom(_, _)
ReplaceFrom(new_text, k) ==
    IF k > Len(Mapper) THEN new_text
    ELSE ReplaceFrom(Replace(new_text, Mapper[k][1], Mapper[k][2]), k + 1)

replace_invalid_chars(s) == ReplaceFrom(s, 1)

\* ------------------------------------------------------------ state
VARIABLES
    pc,           \* where process_content stands
    mode,         \* its arguments do_save and output_folderpath, once read
    content,      \* the dictionary `content`
    items_df,     \* the DataFrame items_df
    todo,         \* what the running correction function still has to visit
    pending,      \* correct_wrong_items: `values` between its two prompts
    entry_df,     \* items_df as correct_wrong_items received it
    rounds,       \* per row: rounds of the total-price prompt run so far
    first_ok,     \* per row: whether the first total-price answers passed
    input0,       \* the record process_content was called with
    prompts,      \* input() calls answered so far
    retries,      \* loops gone round again so far
    diff,         \* the last difference get_total_sum_diff returned
    is_correct,   \* the last answer to "Is it correct?"
    do_add_items, \* the last answer to "Do you want to add items?"
    terminal,     \* the branch process_content left through
    ret,          \* what process_content returned
    err,          \* the exception that ended it
    new_items,    \* the list new_items of the loop
    new_item,     \* the dictionary item of get_new_item
    \* get_items
    text,         \* its argument text
    do_correct,   \* its argument do_correct
    xpc,          \* where get_items stands
    split_text,   \* the groups get_split_text returned
    row,          \* the group the loop of get_items is at
    items,        \* the list `items`
    xerr,         \* the exception that ended get_items
    xprompts,     \* input() calls answered so far
    \* replace_invalid_chars
    ntext,        \* its argument text
    new_text,     \* the text with the replacements made so far
    applied,      \* the entries of the mapper applied so far
    \* get_shop_name
    stext,        \* its argument text, of the first call
    sarg,         \* its argument text, of the call that is running
    sdo_correct,  \* its argument do_correct, of the first call
    spc,          \* where get_shop_name stands
    shop,         \* what it returned
    sprompts,     \* input() calls answered so far
    \* get_shopping_date
    dtext,        \* its argument text
    ddo_correct,  \* its argument do_correct
    dpc,          \* where get_shopping_date stands
    date,         \* the date recognized, then the value returned
    dprompts,     \* input() calls of get_date answered so far
    \* the checks called on their own
    vdata,        \* the argument data of is_total_price_correct and
                  \* is_final_price_correct
    vcontent,     \* the argument content of get_total_sum_diff
    vitems_df,    \* the argument items_df of get_total_sum_diff
    vprompts,     \* input() calls answered during the checks
    vcalls,       \* the checks called so far
    vresult,      \* what the last call returned
    \* save_content_in_db
    db,           \* the tables as committed
    tx,           \* the tables as the cursor of the connection sees them
    save_pc,      \* where save_content_in_db stands
    save_items,   \* content['items']
    save_i,       \* the item, then the row of final_df, the loop is at
    final_df,     \* the rows of final_df
    receipt_id,   \* the global receipt_id
    lastrowid,    \* the id given to the last receipt row
    save_err,     \* the exception that ended the application
    saves,        \* calls of save_content_in_db so far
    \* reading an image
    ifiles,       \* the files that exist
    ifunc,        \* the function called: read_image or get_img_content
    img_filepath, \* its argument path
    iflags,       \* prepare_img, binarize_img, save_proc_imgs, write_content
    ipc,          \* where the call stands
    img,          \* the name of the image at hand
    ierr,         \* the exception that ended the call
    \* get_new_values called on its own
    gitem0,       \* the item as it was when passed in
    gitem,        \* the argument item
    gfunc,        \* the argument func, by name
    gprops,       \* the argument props
    ginitial,     \* the argument initial_values as passed in
    gvalues,      \* the dictionary values
    ganswers,     \* what the operator answered in the last round
    grounds,      \* rounds of the loop done
    gpc,          \* where get_new_values stands
    gret          \* what it returned

pvars == <<pc, mode, content, items_df, todo, pending, entry_df, rounds,
           first_ok, input0, prompts, retries, diff, is_correct, do_add_items,
           terminal, ret, err, new_items, new_item>>
xvars == <<text, do_correct, xpc, split_text, row, items, xerr, xprompts>>
nvars == <<ntext, new_text, applied>>
svars == <<stext, sarg, sdo_correct, spc, shop, sprompts>>
dvars == <<dtext, ddo_correct, dpc, date, dprompts>>
mvars == <<svars, dvars>>
cvars == <<vdata, vcontent, vitems_df, vprompts, vcalls, vresult>>
bvars == <<db, tx, save_pc, save_items, save_i, final_df, receipt_id,
           lastrowid, save_err, saves>>
ivars == <<ifiles, ifunc, img_filepath, iflags, ipc, img, ierr>>
gvars == <<gitem0, gitem, gfunc, gprops, ginitial, gvalues, ganswers, grounds,
           gpc, gret>>
ovars == <<bvars, ivars, gvars>>
vars == <<pvars, xvars, nvars, mvars, cvars, ovars>>

\* ------------------------------------------------------------ inputs
MoneyValues == {10, 20}

\* an item as it stands in extracted_content.json
InitItems ==
    {it \in [name : {"item"},
             qty : {1000, FalseV},
             unit_price : {10},
             total_price : MoneyValues,
             total_discount : {NoneV, 0, 10},
             final_price : MoneyValues] :
        it.qty = FalseV =>
            it.total_price = 10 /\ it.total_discount = NoneV /\ it.final_price = 10}

RECURSIVE SeqsUpTo(_, _)
SeqsUpTo(S, n) ==
    IF n = 0 THEN {<<>>}
    ELSE LET shorter == SeqsUpTo(S, n - 1)
         IN  shorter \cup {Append(s, x) : s \in {t \in shorter : Len(t) = n - 1}, x \in S}

\* the name of the item in row i
NameAt(i) == "n" \o ToString(i)

InitContents ==
    [shop_name : {"Biedronka"},
     shopping_date : {"2022-08-11"},
     items : {[i \in DOMAIN s |-> [s[i] EXCEPT !.name = NameAt(i)]] :
                 s \in SeqsUpTo(InitItems, MaxItems)},
     total_sum : MoneyValues]

Modes ==
    {[do_save |-> FALSE, out_is_file |-> FALSE],
     [do_save |-> TRUE, out_is_file |-> TRUE],
     [do_save |-> TRUE, out_is_file |-> FALSE]}

\* what the operator may type for a number: quantities, amounts in whole
\* cents, and amounts with a third decimal (0.012)
NumAnswers(prop) ==
    CASE prop = "qty" -> {2000}
      [] prop = "unit_price" -> {12, 20}
      [] prop = "total_price" -> {10, 20}
      [] prop = "total_discount" -> {0, 10}
      [] prop = "final_price" -> {10, 20}
      [] prop = "total_sum" -> {20, 22, 30}

\* the answers to one round of get_new_values over props: a number, or the
\* empty answer that keeps the item's value
AnswersFor(props) ==
    {a \in [props -> {SkipV, 0, 10, 12, 20, 22, 30, 2000}] :
        \A p \in props : a[p] = SkipV \/ a[p] \in NumAnswers(p)}

\* process_content is not running
ProcessIdle ==
    /\ pc = "idle"
    /\ mode = NoRecord
    /\ content = NoRecord
    /\ items_df = <<>>
    /\ todo = <<>>
    /\ pending = NoRecord
    /\ entry_df = <<>>
    /\ rounds = <<>>
    /\ first_ok = <<>>
    /\ input0 = NoRecord
    /\ prompts = 0
    /\ retries = 0
    /\ diff = 0
    /\ is_correct = ""
    /\ do_add_items = ""
    /\ terminal = ""
    /\ ret = NoRecord
    /\ err = ""
    /\ new_items = <<>>
    /\ new_item = NoRecord

\* get_items is not running
ExtractIdle ==
    /\ text = <<>>
    /\ do_correct = FALSE
    /\ xpc = "idle"
    /\ split_text = <<>>
    /\ row = 0
    /\ items = <<>>
    /\ xerr = ""
    /\ xprompts = 0

\* replace_invalid_chars is not running
NormalizeIdle ==
    /\ ntext = <<>>
    /\ new_text = <<>>
    /\ applied = {}

\* get_shop_name is not running
ShopIdle ==
    /\ stext = <<>>
    /\ sarg = <<>>
    /\ sdo_correct = FALSE
    /\ spc = "idle"
    /\ shop = ""
    /\ sprompts = 0

\* get_shopping_date is not running
DateIdle ==
    /\ dtext = <<>>
    /\ ddo_correct = FALSE
    /\ dpc = "idle"
    /\ date = <<>>
    /\ dprompts = 0

MetadataIdle == ShopIdle /\ DateIdle

\* the tables of the database 'shopping', empty
NoTables == [item |-> {}, invalid_item |-> {}, receipt |-> {}, all_items |-> {}]

\* save_content_in_db is not called
SaveIdle ==
    /\ db = NoTables
    /\ tx = NoTables
    /\ save_pc = "idle"
    /\ save_items = <<>>
    /\ save_i = 0
    /\ final_df = <<>>
    /\ receipt_id = 0
    /\ lastrowid = 0
    /\ save_err = ""
    /\ saves = 0

\* no image is read
ImageIdle ==
    /\ ifiles = {}
    /\ ifunc = ""
    /\ img_filepath = ""
    /\ iflags = NoRecord
    /\ ipc = "idle"
    /\ img = ""
    /\ ierr = ""

\* get_new_values is not called on its own
ValuesIdle ==
    /\ gitem0 = NoRecord
    /\ gitem = NoRecord
    /\ gfunc = ""
    /\ gprops = {}
    /\ ginitial = <<>>
    /\ gvalues = <<>>
    /\ ganswers = <<>>
    /\ grounds = 0
    /\ gpc = "idle"
    /\ gret = NoRecord

\* none of the other components runs
OthersIdle == SaveIdle /\ ImageIdle /\ ValuesIdle

\* no check is called on its own
ChecksIdle ==
    /\ vdata = NoRecord
    /\ vcontent = NoRecord
    /\ vitems_df = <<>>
    /\ vprompts = 0
    /\ vcalls = {}
    /\ vresult = NoRecord

Init ==
    /\ OthersIdle
    /\ ChecksIdle
    /\ ExtractIdle
    /\ NormalizeIdle
    /\ MetadataIdle
    /\ pc = "start"
    /\ mode = NoRecord
    /\ content \in InitContents
    /\ items_df = <<>>
    /\ todo = <<>>
    /\ pending = NoRecord
    /\ entry_df = <<>>
    /\ rounds = <<>>
    /\ first_ok = <<>>
    /\ input0 = content
    /\ prompts = 0
    /\ retries = 0
    /\ diff = 0
    /\ is_correct = ""
    /\ do_add_items = ""
    /\ terminal = ""
    /\ ret = NoRecord
    /\ err = ""
    /\ new_items = <<>>
    /\ new_item = NoRecord


\* ------------------------------------------------------------ process_content
\* it: the tuple of variables only the correction phases write
phase_vars == <<pending, entry_df, rounds, first_ok>>
add_vars == <<new_items, new_item>>
loop_vars == <<diff, is_correct, do_add_items, terminal, ret, err>>

\* lines 382-386: the DataFrame is built and correct_missing_properties
\* selects the rows with a cell equal to False
process_content_start ==
    /\ UNCHANGED add_vars
    /\ pc = "start"
    /\ items_df' = ToFrame(content.items)
    /\ todo' = MissingCells(ToFrame(content.items))
    /\ pc' = "missing"
    /\ UNCHANGED <<mode, content, input0, prompts, retries>>
    /\ UNCHANGED phase_vars
    /\ UNCHANGED loop_vars
    /\ UNCHANGED <<xvars, nvars, mvars, cvars, ovars>>

\* correct_missing_properties, one "Enter new value: " (string_to_float with
\* do_correct=True hands back a number)
correct_missing_properties ==
    /\ UNCHANGED add_vars
    /\ pc = "missing"
    /\ todo # <<>>
    /\ LET i == Head(todo)[1]
           prop == Head(todo)[2]
       IN  \E value \in NumAnswers(prop) :
               items_df' = [items_df EXCEPT ![i] = Updated(@, (prop :> value))]
    /\ todo' = Tail(todo)
    /\ prompts' = prompts + 1
    /\ UNCHANGED <<pc, mode, content, input0, retries>>
    /\ UNCHANGED phase_vars
    /\ UNCHANGED loop_vars
    /\ UNCHANGED <<xvars, nvars, mvars, cvars, ovars>>

\* correct_discounted_items, lines 95-108: df['total_discount'] of a table
\* with no rows and so no columns raises KeyError
correct_discounted_items_start ==
    /\ UNCHANGED add_vars
    /\ pc = "missing"
    /\ todo = <<>>
    /\ IF items_df = <<>>
       THEN /\ pc' = "raised"
            /\ err' = "KeyError"
            /\ todo' = todo
       ELSE /\ pc' = "discounted"
            /\ err' = err
            /\ todo' = WrongDiscounted(items_df)
    /\ UNCHANGED <<mode, content, items_df, input0, prompts, retries>>
    /\ UNCHANGED phase_vars
    /\ UNCHANGED <<diff, is_correct, do_add_items, terminal, ret>>
    /\ UNCHANGED <<xvars, nvars, mvars, cvars, ovars>>

DiscProps == {"total_price", "total_discount", "final_price"}

\* correct_discounted_items, one round of get_new_values for the row
correct_discounted_items ==
    /\ UNCHANGED add_vars
    /\ pc = "discounted"
    /\ todo # <<>>
    /\ LET i == Head(todo)
       IN  \E answers \in AnswersFor(DiscProps) :
             LET values == RoundValues(items_df[i], DiscProps, answers, <<>>)
             IN  IF is_final_price_correct(values)
                 THEN /\ items_df' = [items_df EXCEPT ![i] = Updated(@, values)]
                      /\ todo' = Tail(todo)
                      /\ retries' = retries
                 ELSE /\ retries < MaxRetries
                      /\ retries' = retries + 1
                      /\ UNCHANGED <<items_df, todo>>
    /\ prompts' = prompts + 3
    /\ UNCHANGED <<pc, mode, content, input0>>
    /\ UNCHANGED phase_vars
    /\ UNCHANGED loop_vars
    /\ UNCHANGED <<xvars, nvars, mvars, cvars, ovars>>

\* correct_wrong_items, lines 146-160
correct_wrong_items_start ==
    /\ UNCHANGED add_vars
    /\ pc = "discounted"
    /\ todo = <<>>
    /\ pc' = "wrong"
    /\ todo' = WrongItems(items_df)
    /\ entry_df' = items_df
    /\ rounds' = [i \in DOMAIN items_df |-> 0]
    /\ first_ok' = [i \in DOMAIN items_df |-> FALSE]
    /\ UNCHANGED <<mode, content, items_df, input0, prompts, retries, pending>>
    /\ UNCHANGED loop_vars
    /\ UNCHANGED <<xvars, nvars, mvars, cvars, ovars>>

TotalProps == {"qty", "unit_price", "total_price"}
FinalProps == {"total_discount", "final_price"}

\* correct_wrong_items, lines 161-194: one round of get_new_values over
\* qty, unit_price and total_price for the row, and what follows a round
\* that passes
correct_wrong_items ==
    /\ UNCHANGED add_vars
    /\ pc = "wrong"
    /\ todo # <<>>
    /\ LET i == Head(todo)
           item == entry_df[i]
           is_discounted == ~IsNa(item.total_discount)
       IN  \E answers \in AnswersFor(TotalProps) :
             LET values == RoundValues(item, TotalProps, answers, <<>>)
             IN  /\ rounds' = [rounds EXCEPT ![i] = @ + 1]
                 /\ first_ok' = IF rounds[i] = 0
                                THEN [first_ok EXCEPT ![i] = is_total_price_correct(values)]
                                ELSE first_ok
                 /\ IF ~is_total_price_correct(values)
                    THEN /\ retries < MaxRetries
                         /\ retries' = retries + 1
                         /\ UNCHANGED <<pc, items_df, todo, pending>>
                    ELSE /\ retries' = retries
                         /\ IF is_discounted
                            THEN IF is_final_price_correct(
                                      [total_price |-> values.total_price,
                                       total_discount |-> item.total_discount,
                                       final_price |-> item.final_price])
                                 THEN /\ items_df' = [items_df EXCEPT ![i] = Updated(@, values)]
                                      /\ todo' = Tail(todo)
                                      /\ UNCHANGED <<pc, pending>>
                                 ELSE /\ pending' = values
                                      /\ pc' = "wrong_disc"
                                      /\ UNCHANGED <<items_df, todo>>
                            ELSE /\ items_df' = [items_df EXCEPT ![i] =
                                        Updated(@, ("final_price" :> values.total_price) @@ values)]
                                 /\ todo' = Tail(todo)
                                 /\ UNCHANGED <<pc, pending>>
    /\ prompts' = prompts + 3
    /\ UNCHANGED <<mode, content, input0, entry_df>>
    /\ UNCHANGED loop_vars
    /\ UNCHANGED <<xvars, nvars, mvars, cvars, ovars>>

\* correct_wrong_items, lines 178-188: one round of get_new_values over
\* total_discount and final_price, started from the new total price
correct_wrong_items_discount ==
    /\ UNCHANGED add_vars
    /\ pc = "wrong_disc"
    /\ LET i == Head(todo)
           item == entry_df[i]
       IN  \E answers \in AnswersFor(FinalProps) :
             LET disc_values == RoundValues(item, FinalProps, answers,
                                    [total_price |-> pending.total_price])
             IN  IF is_final_price_correct(disc_values)
                 THEN /\ items_df' = [items_df EXCEPT ![i] = Updated(@, disc_values @@ pending)]
                      /\ todo' = Tail(todo)
                      /\ pending' = NoRecord
                      /\ pc' = "wrong"
                      /\ retries' = retries
                 ELSE /\ retries < MaxRetries
                      /\ retries' = retries + 1
                      /\ UNCHANGED <<pc, items_df, todo, pending>>
    /\ prompts' = prompts + 2
    /\ UNCHANGED <<mode, content, input0, entry_df, rounds, first_ok>>
    /\ UNCHANGED loop_vars
    /\ UNCHANGED <<xvars, nvars, mvars, cvars, ovars>>

\* line 395: content['items'] = items_df.to_dict('records')
correct_wrong_items_end ==
    /\ UNCHANGED add_vars
    /\ pc = "wrong"
    /\ todo = <<>>
    /\ content' = [content EXCEPT !.items = items_df]
    /\ pc' = "loop"
    /\ entry_df' = <<>>
    /\ rounds' = <<>>
    /\ first_ok' = <<>>
    /\ UNCHANGED <<mode, items_df, todo, input0, prompts, retries, pending>>
    /\ UNCHANGED loop_vars
    /\ UNCHANGED <<xvars, nvars, mvars, cvars, ovars>>


\* write_content, lines 344-346: NaN discounts become None
write_content(obj) ==
    [obj EXCEPT !.items = [i \in DOMAIN obj.items |->
        IF obj.items[i].total_discount = NaN
        THEN [obj.items[i] EXCEPT !.total_discount = NoneV] ELSE obj.items[i]]]

\* `return content`, after write_content when do_save: np.isnan(None) raises
\* TypeError, and open(output_folderpath, 'w') raises OSError unless the
\* path given as the output folder names a file that can be written.  The
\* arguments do_save and output_folderpath are read nowhere else, and are
\* drawn here.
Return(state) ==
    /\ terminal' = state
    /\ \E m \in Modes :
        /\ mode' = m
        /\ IF ~m.do_save
           THEN /\ pc' = "returned"
                /\ ret' = content
                /\ UNCHANGED <<content, err>>
           ELSE IF \E i \in DOMAIN content.items : content.items[i].total_discount = NoneV
           THEN /\ pc' = "raised"
                /\ err' = "TypeError"
                /\ UNCHANGED <<content, ret>>
           ELSE IF ~m.out_is_file
           THEN /\ pc' = "raised"
                /\ err' = "OSError"
                /\ content' = write_content(content)
                /\ ret' = ret
           ELSE /\ pc' = "returned"
                /\ content' = write_content(content)
                /\ ret' = write_content(content)
                /\ err' = err

\* the head of the loop deciding on the difference it computed the time before
check_total_sum_Stale ==
    /\ UNCHANGED add_vars
    /\ pc = "loop"
    /\ diff' = diff
    /\ IF diff = 0
       THEN Return("RECONCILED")
       ELSE /\ pc' = "ask_total"
            /\ UNCHANGED <<mode, content, terminal, ret, err>>
    /\ UNCHANGED <<items_df, todo, input0, prompts, retries,
                   is_correct, do_add_items>>
    /\ UNCHANGED phase_vars
    /\ UNCHANGED <<xvars, nvars, mvars, cvars, ovars>>

\* lines 398-411: the head of the loop
check_total_sum ==
    /\ UNCHANGED add_vars
    /\ pc = "loop"
    /\ diff' = get_total_sum_diff(content.total_sum, items_df)
    /\ IF get_total_sum_diff(content.total_sum, items_df) = 0
       THEN Return("RECONCILED")
       ELSE /\ pc' = "ask_total"
            /\ UNCHANGED <<mode, content, terminal, ret, err>>
    /\ UNCHANGED <<items_df, todo, input0, prompts, retries,
                   is_correct, do_add_items>>
    /\ UNCHANGED phase_vars
    /\ UNCHANGED <<xvars, nvars, mvars, cvars, ovars>>

\* lines 414-416 and 449: "Is it correct?"
answer_is_correct ==
    /\ UNCHANGED add_vars
    /\ pc = "ask_total"
    /\ \E answer \in {"yes", "no"} :
        /\ is_correct' = answer
        /\ pc' = IF answer = "yes" THEN "ask_add" ELSE "set_total"
    /\ prompts' = prompts + 1
    /\ UNCHANGED <<mode, content, items_df, todo, input0, retries,
                   diff, do_add_items, terminal, ret, err>>
    /\ UNCHANGED phase_vars
    /\ UNCHANGED <<xvars, nvars, mvars, cvars, ovars>>

\* lines 450-453: the operator sets the total sum, and the loop goes round
set_total_sum ==
    /\ UNCHANGED add_vars
    /\ pc = "set_total"
    /\ retries < MaxRetries
    /\ retries' = retries + 1
    /\ \E new_total_sum \in NumAnswers("total_sum") :
        content' = [content EXCEPT !.total_sum = new_total_sum]
    /\ pc' = "loop"
    /\ prompts' = prompts + 1
    /\ UNCHANGED <<mode, items_df, todo, input0, diff, is_correct,
                   do_add_items, terminal, ret, err>>
    /\ UNCHANGED phase_vars
    /\ UNCHANGED <<xvars, nvars, mvars, cvars, ovars>>

\* the two answers to "Do you want to add items?" taken for each other
answer_add_items_Swapped ==
    /\ pc = "ask_add"
    /\ prompts' = prompts + 1
    /\ \E answer \in {"yes", "no"} :
        /\ do_add_items' = answer
        /\ new_items' = IF answer = "no" THEN <<>> ELSE new_items
        /\ IF answer = "yes"
           THEN Return("ACCEPTED_WITH_DISCREPANCY")
           ELSE /\ pc' = "new_item"
                /\ UNCHANGED <<mode, content, terminal, ret, err>>
    /\ UNCHANGED <<items_df, todo, input0, retries, diff, is_correct, new_item>>
    /\ UNCHANGED phase_vars
    /\ UNCHANGED <<xvars, nvars, mvars, cvars, ovars>>

\* lines 417-419 and 443-448: "Do you want to add items?"
answer_add_items ==
    /\ pc = "ask_add"
    /\ prompts' = prompts + 1
    /\ \E answer \in {"yes", "no"} :
        /\ do_add_items' = answer
        /\ new_items' = IF answer = "yes" THEN <<>> ELSE new_items
        /\ IF answer = "no"
           THEN Return("ACCEPTED_WITH_DISCREPANCY")
           ELSE /\ pc' = "new_item"
                /\ UNCHANGED <<mode, content, terminal, ret, err>>
    /\ UNCHANGED <<items_df, todo, input0, retries, diff, is_correct, new_item>>
    /\ UNCHANGED phase_vars
    /\ UNCHANGED <<xvars, nvars, mvars, cvars, ovars>>

\* what the operator enters at 'total discount: '
DiscountAnswers == {0, 10}

\* get_new_item, lines 282-312: the item is built up to line 303 from the
\* four entries; line 306 then reads item['discount'], a key the function
\* never sets, and raises KeyError. Nothing is returned, and line 427 does
\* not run
get_new_item ==
    /\ pc = "new_item"
    /\ \E qty \in NumAnswers("qty"), unit_price \in NumAnswers("unit_price"),
          discount \in DiscountAnswers :
           new_item' = [name |-> "new",
                        qty |-> qty,
                        unit_price |-> unit_price,
                        total_price |-> CalcTotalPrice(qty, unit_price),
                        total_discount |-> IF discount = 0 THEN NoneV ELSE discount]
    /\ prompts' = prompts + 4
    /\ pc' = "raised"
    /\ err' = "KeyError"
    /\ UNCHANGED <<mode, content, items_df, todo, input0, retries, diff,
                   is_correct, do_add_items, terminal, ret, new_items>>
    /\ UNCHANGED phase_vars
    /\ UNCHANGED <<xvars, nvars, mvars, cvars, ovars>>

Next ==
    \/ process_content_start
    \/ correct_missing_properties
    \/ correct_discounted_items_start
    \/ correct_discounted_items
    \/ correct_wrong_items_start
    \/ correct_wrong_items
    \/ correct_wrong_items_discount
    \/ correct_wrong_items_end
    \/ check_total_sum
    \/ answer_is_correct
    \/ set_total_sum
    \/ answer_add_items
    \/ get_new_item

Spec == Init /\ [][Next]_vars

\* process_content with an operator who answers every question asked
SpecLive == Init /\ [][Next]_vars /\ WF_vars(Next)


\* ------------------------------------------------------------ get_items
\* rows of a receipt as the recognized text has them
Row_Milk == <<"M", "i", "l", "k", " ", "1", " ", "x", " ", "1", "0", ".", "0", "0", " ", "1", "0", ".", "0", "0">>
Row_Discount == <<"O", "P", "U", "S", "T", " ", "-", "2", ".", "0", "0">>
Row_FinalPrice == <<"8", ".", "0", "0">>
Row_MilkA == <<"M", "i", "l", "k", " ", "A", " ", "1", " ", "x", "1", "0", ".", "0", "0", " ", "1", "0", ".", "0", "0">>
Row_Empty == <<>>
Row_MilkBadPrice == <<"M", "i", "l", "k", " ", "A", " ", "1", " ", "x", "t", "0", ".", "0", "0", " ", "1", "0", ".", "0", "0">>

Row_Discount12 == <<"O", "P", "U", "S", "T", " ", "-", "1", "2", ",", "0", "0">>
Row_BareMarker == <<"O", "P", "U", "S", "T">>
Row_NoSeparator == <<"8">>

LinePool == {Row_Milk, Row_Discount, Row_FinalPrice, Row_MilkA, Row_Empty,
             Row_MilkBadPrice}
BlockPool == {Row_MilkA, Row_Discount, Row_FinalPrice}

\* '\n'.join(lines)
RECURSIVE Join(_)
Join(lines) ==
    IF lines = <<>> THEN <<>>
    ELSE IF Len(lines) = 1 THEN lines[1]
    ELSE lines[1] \o <<"\n">> \o Join(Tail(lines))

\* an item row, a discount marker row and a final price row, of every kind
DiscountBlocks ==
    {<<item_line, discount_line, final_price_line>> :
        item_line \in {Row_Milk, Row_MilkA, Row_MilkBadPrice},
        discount_line \in {Row_Discount, Row_Discount12, Row_BareMarker},
        final_price_line \in {Row_FinalPrice, Row_NoSeparator}}

\* a discount block alone, and with an ordinary row before or after it
BlockTexts ==
    {before \o block \o after :
        before \in {<<>>, <<Row_MilkA>>},
        block \in DiscountBlocks,
        after \in {<<>>, <<Row_MilkA>>}}

InitTexts ==
    {Join(lines) : lines \in SeqsUpTo(LinePool, MaxLines)
                             \cup SeqsUpTo(BlockPool, MaxBlockLines)
                             \cup BlockTexts}

\* what the operator enters at 'Enter a valid number: '
EnteredValues == {1000, 2500}

ItemKeys == {"qty", "unit_price", "total_price", "total_discount", "final_price"}

InitExtract ==
    /\ OthersIdle
    /\ ChecksIdle
    /\ ProcessIdle
    /\ NormalizeIdle
    /\ MetadataIdle
    /\ text \in InitTexts
    /\ do_correct \in BOOLEAN
    /\ xpc = "start"
    /\ split_text = <<>>
    /\ row = 0
    /\ items = <<>>
    /\ xerr = ""
    /\ xprompts = 0

\* get_items, lines 290-293
get_items_start ==
    /\ xpc = "start"
    /\ LET result == get_split_text(text)
       IN  IF result.err # ""
           THEN /\ xpc' = "raised"
                /\ xerr' = result.err
                /\ UNCHANGED <<split_text, row>>
           ELSE /\ xpc' = "rows"
                /\ split_text' = result.groups
                /\ row' = 1
                /\ UNCHANGED xerr
    /\ UNCHANGED <<text, do_correct, items, xprompts>>
    /\ UNCHANGED <<pvars, nvars, mvars, cvars, ovars>>

\* the properties string_to_float asks the operator for
Asked(strings) ==
    IF do_correct THEN {key \in DOMAIN strings : Float(strings[key]) = FalseV}
    ELSE {}

\* get_items, lines 294-313: one turn of the loop
get_items_row ==
    /\ xpc = "rows"
    /\ row <= Len(split_text)
    /\ LET line == split_text[row]
           item_line == line[1]
           strings == get_item_strings(item_line)
       IN  IF strings = NoRecord
           THEN /\ row' = row + 1
                /\ UNCHANGED <<xpc, items, xerr, xprompts>>
           ELSE LET discount == IF Len(line) > 1 THEN get_price(line[2], TRUE) ELSE <<>>
                    final_price == IF Len(line) > 1 THEN get_price(line[3], FALSE) ELSE <<>>
                    more == IF Len(line) > 1 /\ discount # NoMatch /\ final_price # NoMatch
                            THEN [total_discount |-> discount, final_price |-> final_price]
                            ELSE <<>>
                    asked == Asked([key \in {"qty", "unit_price", "total_price"} |-> strings[key]])
                                 \cup Asked(more)
                IN  \E answers \in [asked -> EnteredValues] :
                        LET entered == [key \in ItemKeys |->
                                           IF key \in asked THEN answers[key] ELSE 0]
                            item == get_item(item_line, do_correct, entered)
                        IN  IF Len(line) > 1 /\ (discount = NoMatch \/ final_price = NoMatch)
                            THEN /\ xpc' = "raised"
                                 /\ xerr' = "AttributeError"
                                 /\ xprompts' = xprompts + Cardinality(asked)
                                 /\ UNCHANGED <<row, items>>
                            ELSE /\ items' = Append(items,
                                        IF Len(line) > 1
                                        THEN [item EXCEPT
                                                 !.total_discount = string_to_float(
                                                     discount, do_correct, entered.total_discount),
                                                 !.final_price = string_to_float(
                                                     final_price, do_correct, entered.final_price)]
                                        ELSE item)
                                 /\ row' = row + 1
                                 /\ xprompts' = xprompts + Cardinality(asked)
                                 /\ UNCHANGED <<xpc, xerr>>
    /\ UNCHANGED <<text, do_correct, split_text>>
    /\ UNCHANGED <<pvars, nvars, mvars, cvars, ovars>>

\* get_items, line 315
get_items_return ==
    /\ xpc = "rows"
    /\ row > Len(split_text)
    /\ xpc' = "done"
    /\ UNCHANGED <<text, do_correct, split_text, row, items, xerr, xprompts>>
    /\ UNCHANGED <<pvars, nvars, mvars, cvars, ovars>>

NextExtract ==
    \/ get_items_start
    \/ get_items_row
    \/ get_items_return

SpecExtract == InitExtract /\ [][NextExtract]_vars

\* ------------------------------------------------------------ replace_invalid_chars
NormChars == {"(", "{", "«", "¥", "#", "~", "?", "1", "x", "-", "P", "a"}

InitNormTexts == UNION {[1..n -> NormChars] : n \in 0..MaxTextLen}

InitNormalize ==
    /\ OthersIdle
    /\ ChecksIdle
    /\ ProcessIdle
    /\ ExtractIdle
    /\ MetadataIdle
    /\ ntext \in InitNormTexts
    /\ new_text = ntext
    /\ applied = {}

\* lines 51-55 as written: every entry, in the order of the mapper
replace_invalid_chars_call ==
    /\ applied = {}
    /\ new_text' = replace_invalid_chars(ntext)
    /\ applied' = DOMAIN Mapper
    /\ UNCHANGED ntext
    /\ UNCHANGED <<pvars, xvars, mvars, cvars, ovars>>

\* line 53 for one entry of the mapper, the entries taken in any order
replace_entry ==
    /\ \E k \in DOMAIN Mapper \ applied :
           /\ new_text' = Replace(new_text, Mapper[k][1], Mapper[k][2])
           /\ applied' = applied \cup {k}
    /\ UNCHANGED ntext
    /\ UNCHANGED <<pvars, xvars, mvars, cvars, ovars>>

NextNormalize ==
    \/ replace_invalid_chars_call
    \/ replace_entry

SpecNormalize == InitNormalize /\ [][NextNormalize]_vars


\* ------------------------------------------------------------ get_shop_name
\* str.lower on the letters of the texts. The letter Z with dot above, capital
\* and small, is written "Z." and "z.": one character of the text each
UpperCase == <<"A", "B", "C", "D", "E", "I", "K", "M", "N", "O", "R", "S", "Z", "Z.">>
LowerCase == <<"a", "b", "c", "d", "e", "i", "k", "m", "n", "o", "r", "s", "z", "z.">>

LowerChar(c) ==
    IF \E i \in DOMAIN UpperCase : UpperCase[i] = c
    THEN LowerCase[CHOOSE i \in DOMAIN UpperCase : UpperCase[i] = c]
    ELSE c

Lower(s) == [i \in DOMAIN s |-> LowerChar(s[i])]

\* line 120-124 with Rossmann before Biedronka
SHOPS_RossmannFirst ==
    <<[name |-> "Rossmann", possible_names |-> <<<<"r", "o", "s", "s", "m", "a", "n", "n">>>>],
      [name |-> "Biedronka", possible_names |-> <<<<"b", "i", "e", "d", "r", "o", "n", "k", "a">>>>],
      [name |-> "Z.abka", possible_names |-> <<<<"z.", "a", "b", "k", "a">>, <<"z", "a", "b", "k", "a">>>>]>>

\* lines 120-124, in the order the loops visit the entries
SHOPS ==
    <<[name |-> "Biedronka", possible_names |-> <<<<"b", "i", "e", "d", "r", "o", "n", "k", "a">>>>],
      [name |-> "Rossmann", possible_names |-> <<<<"r", "o", "s", "s", "m", "a", "n", "n">>>>],
      [name |-> "Z.abka", possible_names |-> <<<<"z.", "a", "b", "k", "a">>, <<"z", "a", "b", "k", "a">>>>]>>

\* line 128 for one entry: one of its possible names is in text.lower()
ShopMatches(k, s) ==
    \E n \in DOMAIN SHOPS[k].possible_names :
        Contains(Lower(s), SHOPS[k].possible_names[n])

\* lines 126-129: the name returned, "" when the loops end without one
MatchShop(s) ==
    IF \E k \in DOMAIN SHOPS : ShopMatches(k, s)
    THEN SHOPS[CHOOSE k \in DOMAIN SHOPS :
                   ShopMatches(k, s) /\ \A j \in 1..(k - 1) : ~ShopMatches(j, s)].name
    ELSE ""

\* value_if_not_recognized, None by default
NotRecognized == "None"

ShopLines ==
    {<<"B", "I", "E", "D", "R", "O", "N", "K", "A">>,
     <<"R", "o", "s", "s", "m", "a", "n", "n">>,
     <<"S", "k", "l", "e", "p", " ", "Z", "a", "b", "k", "a">>,
     <<"Z.", "a", "b", "k", "a">>,
     <<"S", "k", "l", "e", "p">>,
     <<"b", "i", "e", "d", "r", "o", "n", "k", "a">>}

InitShopTexts == {Join(lines) : lines \in SeqsUpTo(ShopLines, MaxShopLines)}

InitShop ==
    /\ OthersIdle
    /\ ChecksIdle
    /\ ProcessIdle
    /\ ExtractIdle
    /\ NormalizeIdle
    /\ DateIdle
    /\ stext \in InitShopTexts
    /\ sarg = stext
    /\ sdo_correct \in BOOLEAN
    /\ spc = "start"
    /\ shop = ""
    /\ sprompts = 0

\* get_shop_name, lines 126-136, up to the return or the call of input()
get_shop_name ==
    /\ spc = "start"
    /\ IF MatchShop(sarg) # ""
       THEN spc' = "done" /\ shop' = MatchShop(sarg)
       ELSE IF sdo_correct
       THEN spc' = "input" /\ UNCHANGED shop
       ELSE spc' = "done" /\ shop' = NotRecognized
    /\ UNCHANGED <<stext, sarg, sdo_correct, sprompts>>
    /\ UNCHANGED <<pvars, xvars, nvars, dvars, cvars, ovars>>

\* lines 133-134: the operator enters a value and get_shop_name(value) runs,
\* with do_correct at its default True
get_shop_name_input ==
    /\ spc = "input"
    /\ sprompts < MaxShopInputs
    /\ \E value \in InitShopTexts :
           /\ sarg' = value
           /\ IF MatchShop(value) # ""
              THEN spc' = "done" /\ shop' = MatchShop(value)
              ELSE UNCHANGED <<spc, shop>>
    /\ sprompts' = sprompts + 1
    /\ UNCHANGED <<stext, sdo_correct>>
    /\ UNCHANGED <<pvars, xvars, nvars, dvars, cvars, ovars>>

NextShop ==
    \/ get_shop_name
    \/ get_shop_name_input

SpecShop == InitShop /\ [][NextShop]_vars


\* ------------------------------------------------------------ get_shopping_date
\* line 204: \d{4}-\d{2}-\d{2}
DatePattern ==
    <<Rep(Digit, 4, 4), Lit("-"), Rep(Digit, 2, 2), Lit("-"), Rep(Digit, 2, 2)>>

\* pattern.search(text): match.group(), <<>> when there is no match
DateSearch(s) ==
    LET m == ReSearch(DatePattern, s)
    IN  IF m = NoMatch THEN <<>> ELSE SubStr(s, m[1], m[Len(m)])

\* a check that takes an entry with a date anywhere in it
DateFullMatch_Search(s) == ReSearch(DatePattern, s) # NoMatch

\* line 199: pattern.fullmatch(date)
DateFullMatch(s) ==
    LET m == ReMatch(DatePattern, s)
    IN  m # NoMatch /\ m[Len(m)] = Len(s)

\* value_if_not_recognized, None by default
NoDate == <<"None">>

DateLines ==
    {<<"2", "0", "2", "2", "-", "0", "8", "-", "1", "1">>,
     <<"2", "2", "-", "0", "8", "-", "1", "1">>,
     <<"1", "2", "0", "2", "2", "-", "0", "8", "-", "1", "1", "1">>,
     <<"S", "k", "l", "e", "p">>,
     <<"2", "0", "2", "2", "-", "8", "-", "1", "1">>}

InitDateTexts == {Join(lines) : lines \in SeqsUpTo(DateLines, MaxDateLines)}

\* what the operator enters at 'Enter correct date in format yyyy-mm-dd: '
DateEntries ==
    {<<"2", "0", "2", "2", "-", "0", "8", "-", "1", "2">>,
     <<"2", "0", "2", "2", "-", "0", "8", "-", "1">>,
     <<"2", "0", "2", "2", "-", "0", "8", "-", "1", "2", "3">>,
     <<"x", "2", "0", "2", "2", "-", "0", "8", "-", "1", "2">>,
     <<>>}

InitDate ==
    /\ OthersIdle
    /\ ChecksIdle
    /\ ProcessIdle
    /\ ExtractIdle
    /\ NormalizeIdle
    /\ ShopIdle
    /\ dtext \in InitDateTexts
    /\ ddo_correct \in BOOLEAN
    /\ dpc = "start"
    /\ date = <<>>
    /\ dprompts = 0

\* get_shopping_date, lines 204-221, up to the first question or the return
get_shopping_date ==
    /\ dpc = "start"
    /\ IF DateSearch(dtext) # <<>>
       THEN dpc' = "confirm" /\ date' = DateSearch(dtext)
       ELSE IF ddo_correct
       THEN dpc' = "input" /\ UNCHANGED date
       ELSE dpc' = "done" /\ date' = NoDate
    /\ UNCHANGED <<dtext, ddo_correct, dprompts>>
    /\ UNCHANGED <<pvars, xvars, nvars, svars, cvars, ovars>>

\* lines 211-214: the answer to 'Is it correct? '
get_shopping_date_confirm ==
    /\ dpc = "confirm"
    /\ \E answer \in {"yes", "no"} :
           IF answer = "yes"
           THEN dpc' = "done" /\ UNCHANGED date
           ELSE dpc' = "input" /\ date' = <<>>
    /\ UNCHANGED <<dtext, ddo_correct, dprompts>>
    /\ UNCHANGED <<pvars, xvars, nvars, svars, cvars, ovars>>

\* get_date, lines 195-202: one turn of the loop
get_date ==
    /\ dpc = "input"
    /\ dprompts < MaxDateInputs
    /\ \E entry \in DateEntries :
           IF DateFullMatch(entry)
           THEN dpc' = "done" /\ date' = entry
           ELSE UNCHANGED <<dpc, date>>
    /\ dprompts' = dprompts + 1
    /\ UNCHANGED <<dtext, ddo_correct>>
    /\ UNCHANGED <<pvars, xvars, nvars, svars, cvars, ovars>>

NextDate ==
    \/ get_shopping_date
    \/ get_shopping_date_confirm
    \/ get_date

SpecDate == InitDate /\ [][NextDate]_vars


\* ------------------------------------------------------------ the checks
\* records for get_total_sum_diff: those of process_content, and those with
\* a total the operator typed with a third decimal
CheckContents ==
    InitContents \cup {[c EXCEPT !.total_sum = 22] : c \in InitContents}

\* items_df=None
NoFrame == <<NoRecord>>

InitChecks ==
    /\ OthersIdle
    /\ ProcessIdle
    /\ ExtractIdle
    /\ NormalizeIdle
    /\ MetadataIdle
    /\ vdata \in InitItems
    /\ vcontent \in CheckContents
    /\ vitems_df \in {NoFrame, ToFrame(vcontent.items)}
    /\ vprompts = 0
    /\ vcalls = {}
    /\ vresult = NoRecord

\* a check that writes the calculated total price into its argument
call_is_total_price_correct_Stores ==
    /\ "is_total_price_correct" \notin vcalls
    /\ vcalls' = vcalls \cup {"is_total_price_correct"}
    /\ vresult' = [fn |-> "is_total_price_correct",
                   value |-> is_total_price_correct(vdata)]
    /\ vdata' = [vdata EXCEPT !.total_price = CalcTotalPrice(vdata.qty, vdata.unit_price)]
    /\ UNCHANGED <<vcontent, vitems_df, vprompts>>
    /\ UNCHANGED <<pvars, xvars, nvars, mvars, ovars>>

\* is_total_price_correct(data), lines 237-240
call_is_total_price_correct ==
    /\ "is_total_price_correct" \notin vcalls
    /\ vcalls' = vcalls \cup {"is_total_price_correct"}
    /\ vresult' = [fn |-> "is_total_price_correct",
                   value |-> is_total_price_correct(vdata)]
    /\ UNCHANGED <<vdata, vcontent, vitems_df, vprompts>>
    /\ UNCHANGED <<pvars, xvars, nvars, mvars, ovars>>

\* is_final_price_correct(data), lines 217-220
call_is_final_price_correct ==
    /\ "is_final_price_correct" \notin vcalls
    /\ vcalls' = vcalls \cup {"is_final_price_correct"}
    /\ vresult' = [fn |-> "is_final_price_correct",
                   value |-> is_final_price_correct(vdata)]
    /\ UNCHANGED <<vdata, vcontent, vitems_df, vprompts>>
    /\ UNCHANGED <<pvars, xvars, nvars, mvars, ovars>>

\* get_total_sum_diff(content, items_df), lines 324-332; the table made at
\* line 325 is a local
call_get_total_sum_diff ==
    /\ "get_total_sum_diff" \notin vcalls
    /\ vcalls' = vcalls \cup {"get_total_sum_diff"}
    /\ LET items_df_local == IF vitems_df = NoFrame THEN ToFrame(vcontent.items)
                             ELSE vitems_df
       IN  vresult' = [fn |-> "get_total_sum_diff",
                       value |-> get_total_sum_diff(vcontent.total_sum, items_df_local)]
    /\ UNCHANGED <<vdata, vcontent, vitems_df, vprompts>>
    /\ UNCHANGED <<pvars, xvars, nvars, mvars, ovars>>

NextChecks ==
    \/ call_is_total_price_correct
    \/ call_is_final_price_correct
    \/ call_get_total_sum_diff

SpecChecks == InitChecks /\ [][NextChecks]_vars


\* ------------------------------------------------------------ save_content_in_db
\* The tables hold sets of rows: 'item' the valid names, 'invalid_item' rows
\* of name, valid_name, receipt_id and count (counted from the column's
\* default), 'receipt' the ids, 'all_items' the item rows.  The connection
\* is opened without autocommit (database.py line 25): what the cursor
\* writes is in tx, and reaches db at connection.commit().  No caller
\* handles an exception of save_content_in_db (Interface.py lines 54-73 and
\* 183-186, and app.menu() at the end of the file), so an exception ends the
\* application with the transaction open, and its writes are dropped.

\* database.get_item_by_name, lines 33-37: the rows of the table with the name
get_item_by_name(tables, table, name) ==
    IF table = "item" THEN {r \in tables.item : r = name}
    ELSE {r \in tables.invalid_item : r.name = name}

\* database.add_valid_item_name, lines 51-53
add_valid_item_name(tables, name) ==
    [tables EXCEPT !.item = @ \cup {name}]

\* database.add_invalid_item_name, lines 40-42
add_invalid_item_name(tables, name, valid_name, rid) ==
    [tables EXCEPT !.invalid_item =
        @ \cup {[name |-> name, valid_name |-> valid_name,
                 receipt_id |-> rid, count |-> 0]}]

\* database.add_existing_invalid_item_name, lines 45-48
add_existing_invalid_item_name(tables, name) ==
    [tables EXCEPT !.invalid_item =
        {IF r.name = name THEN [r EXCEPT !.count = @ + 1] ELSE r : r \in @}]

\* database.add_receipt, lines 56-83: the row, with the next id
add_receipt(tables, id) ==
    [tables EXCEPT !.receipt = @ \cup {id}]

\* database.add_item, lines 120-133
add_item(tables, rid, r) ==
    [tables EXCEPT !.all_items =
        @ \cup {[receipt_id |-> rid, name |-> r.name, qty |-> r.qty,
                 unit_price |-> r.unit_price, total_discount |-> r.total_discount]}]

\* get_valid_name_InvalidOnly: get_valid_name without the insertion of the
\* valid name (lines 55-58 left out)
get_valid_name_InvalidOnly(tables, name, user_input, rid) ==
    IF get_item_by_name(tables, "item", name) # {}
    THEN [tables |-> tables, valid_name |-> name]
    ELSE IF get_item_by_name(tables, "invalid_item", name) # {}
    THEN LET counted == add_existing_invalid_item_name(tables, name)
             first == CHOOSE r \in get_item_by_name(counted, "invalid_item", name) : TRUE
         IN  [tables |-> counted, valid_name |-> first.valid_name]
    ELSE LET valid_name == IF user_input # "" THEN user_input ELSE name
         IN  [tables |-> IF user_input # ""
                         THEN add_invalid_item_name(tables, name, valid_name, rid)
                         ELSE tables,
              valid_name |-> valid_name]

\* get_valid_name, lines 31-65, for an item name and what the operator
\* enters if asked: the tables after it and the name returned
get_valid_name(tables, name, user_input, rid) ==
    IF get_item_by_name(tables, "item", name) # {}
    THEN [tables |-> tables, valid_name |-> name]
    ELSE IF get_item_by_name(tables, "invalid_item", name) # {}
    THEN LET counted == add_existing_invalid_item_name(tables, name)
             first == CHOOSE r \in get_item_by_name(counted, "invalid_item", name) : TRUE
         IN  [tables |-> counted, valid_name |-> first.valid_name]
    ELSE LET valid_name == IF user_input # "" THEN user_input ELSE name
             with_valid == IF get_item_by_name(tables, "item", valid_name) = {}
                           THEN add_valid_item_name(tables, valid_name)
                           ELSE tables
         IN  [tables |-> IF user_input # ""
                         THEN add_invalid_item_name(with_valid, name, valid_name, rid)
                         ELSE with_valid,
              valid_name |-> valid_name]

\* is_unit_price_valid, lines 68-81
is_unit_price_valid(df) ==
    \A i, j \in DOMAIN df :
        df[i].name = df[j].name => df[i].unit_price = df[j].unit_price

\* the sum of a column over the rows of a name
RECURSIVE SumOf(_, _, _)
SumOf(df, name, column) ==
    IF df = <<>> THEN 0
    ELSE (IF Head(df).name = name THEN Head(df)[column] ELSE 0)
             + SumOf(Tail(df), name, column)

\* lines 129-136: one row for each name, in the order the names first
\* appear, with the sums of qty and total_discount and the unit price
FinalRows(df) ==
    LET firsts == SeqOfSet({i \in DOMAIN df : \A j \in 1..(i - 1) : df[j].name # df[i].name})
    IN  [k \in DOMAIN firsts |->
            [name |-> df[firsts[k]].name,
             qty |-> SumOf(df, df[firsts[k]].name, "qty"),
             total_discount |-> SumOf(df, df[firsts[k]].name, "total_discount"),
             unit_price |-> df[firsts[k]].unit_price]]

\* ---- inputs
ItemNames == {"a", "b"}

\* the items of a processed record
SaveItems ==
    [name : ItemNames, qty : {1000}, unit_price : {10, 20}, total_discount : {0}]

SaveContents == SeqsUpTo(SaveItems, MaxSaveItems) \ {<<>>}

\* what the operator enters at 'Enter valid name or press Enter to skip: '
NameEntries == {"", "a"}

\* the database before the application starts: empty, or with the receipt
\* of an earlier run, in which "b" was given the valid name "a"
InitTables ==
    {NoTables,
     [item |-> {"a"},
      invalid_item |-> {[name |-> "b", valid_name |-> "a", receipt_id |-> 1, count |-> 0]},
      receipt |-> {1},
      all_items |-> {[receipt_id |-> 1, name |-> "a", qty |-> 1000,
                      unit_price |-> 10, total_discount |-> 0]}]}

save_others == <<pvars, xvars, nvars, mvars, cvars, ivars, gvars>>

InitSave ==
    /\ ProcessIdle
    /\ ExtractIdle
    /\ NormalizeIdle
    /\ MetadataIdle
    /\ ChecksIdle
    /\ ImageIdle
    /\ ValuesIdle
    /\ db \in InitTables
    /\ tx = db
    /\ save_pc = "menu"
    /\ save_items = <<>>
    /\ save_i = 0
    /\ final_df = <<>>
    /\ receipt_id = 0
    /\ lastrowid = Cardinality(db.receipt)
    /\ save_err = ""
    /\ saves = 0

\* Raise_Handled: the caller handles the exception and shows the menu again
Raise_Handled(e) ==
    /\ save_err' = e
    /\ save_pc' = "menu"
    /\ UNCHANGED db

\* an exception leaves save_content_in_db and Application.menu: the
\* application ends, nothing is committed
Raise(e) ==
    /\ save_err' = e
    /\ save_pc' = "ended"
    /\ UNCHANGED db

\* save_content_in_db, lines 84-110: the receipt row.  The shop id is read
\* with fetchall()[0] (database.py line 64), an IndexError for a shop name
\* that is not in the table 'shop'
save_content_in_db_start ==
    /\ save_pc = "menu"
    /\ saves < MaxSaves
    /\ saves' = saves + 1
    /\ \E input_items \in SaveContents, shop_known \in BOOLEAN :
        /\ save_items' = input_items
        /\ IF shop_known
           THEN /\ lastrowid' = lastrowid + 1
                /\ receipt_id' = lastrowid + 1
                /\ tx' = add_receipt(tx, lastrowid + 1)
                /\ save_pc' = "names"
                /\ save_i' = 1
                /\ UNCHANGED <<db, save_err>>
           ELSE /\ Raise("IndexError")
                /\ UNCHANGED <<tx, save_i, receipt_id, lastrowid>>
    /\ UNCHANGED final_df
    /\ UNCHANGED save_others

\* lines 114-117: one turn of the loop over the items
set_valid_name ==
    /\ save_pc = "names"
    /\ save_i <= Len(save_items)
    /\ \E user_input \in NameEntries :
        LET result == get_valid_name(tx, save_items[save_i].name, user_input, receipt_id)
        IN  /\ tx' = result.tables
            /\ save_items' = [save_items EXCEPT ![save_i].name = result.valid_name]
    /\ save_i' = save_i + 1
    /\ UNCHANGED <<db, save_pc, final_df, receipt_id, lastrowid, save_err, saves>>
    /\ UNCHANGED save_others

\* lines 122-136
check_unit_price ==
    /\ save_pc = "names"
    /\ save_i > Len(save_items)
    /\ IF is_unit_price_valid(save_items)
       THEN /\ final_df' = FinalRows(save_items)
            /\ save_pc' = "items"
            /\ save_i' = 1
            /\ UNCHANGED <<db, save_err>>
       ELSE /\ Raise("ValueError")
            /\ UNCHANGED <<final_df, save_i>>
    /\ UNCHANGED <<tx, save_items, receipt_id, lastrowid, saves>>
    /\ UNCHANGED save_others

\* lines 139-145: one turn of the loop over final_df
add_items ==
    /\ save_pc = "items"
    /\ save_i <= Len(final_df)
    /\ tx' = add_item(tx, receipt_id, final_df[save_i])
    /\ save_i' = save_i + 1
    /\ UNCHANGED <<db, save_pc, save_items, final_df, receipt_id, lastrowid,
                   save_err, saves>>
    /\ UNCHANGED save_others

\* cursor.execute fails while names or items are added (the server is gone,
\* a constraint is broken)
execute_fails ==
    /\ save_pc \in {"names", "items"}
    /\ Raise("DatabaseError")
    /\ UNCHANGED <<tx, save_items, save_i, final_df, receipt_id, lastrowid, saves>>
    /\ UNCHANGED save_others

\* lines 147-151
commit ==
    /\ save_pc = "items"
    /\ save_i > Len(final_df)
    /\ db' = tx
    /\ save_pc' = "menu"
    /\ UNCHANGED <<tx, save_items, save_i, final_df, receipt_id, lastrowid,
                   save_err, saves>>
    /\ UNCHANGED save_others

NextSave ==
    \/ save_content_in_db_start
    \/ set_valid_name
    \/ check_unit_price
    \/ add_items
    \/ execute_fails
    \/ commit

SpecSave == InitSave /\ [][NextSave]_vars

\* ------------------------------------------------------------ reading an image
\* read_image of scripts/process_image.py, and get_img_content of
\* scripts/content_detector/process_image.py with the methods of Image it
\* calls.  An image is known by its name ("Image" as read, then the name
\* each method gives its result); cv.imread returns None for a path it
\* cannot read and raises nothing.
NoImage == ""

\* the files written: the processed images and the recognized content
ProcessedImages == {"Resized.jpg", "Edged.jpg", "Outlined.jpg", "Transformed.jpg",
                    "Binarized.jpg"}
OutputFiles == ProcessedImages \cup {"raw_content.txt"}

ImagePaths == {"receipt.jpg", "not_existing.jpg"}

ImageFlags ==
    [prepare_img : BOOLEAN, binarize_img : BOOLEAN, save_proc_imgs : BOOLEAN,
     write_content : BOOLEAN]

image_others == <<pvars, xvars, nvars, mvars, cvars, bvars, gvars>>

InitImage ==
    /\ ProcessIdle
    /\ ExtractIdle
    /\ NormalizeIdle
    /\ MetadataIdle
    /\ ChecksIdle
    /\ SaveIdle
    /\ ValuesIdle
    /\ ifiles \in SUBSET {"receipt.jpg", "other.jpg"}
    /\ ifunc \in {"read_image", "get_img_content"}
    /\ img_filepath \in ImagePaths
    /\ iflags \in ImageFlags
    /\ ipc = "call"
    /\ img = NoImage
    /\ ierr = ""

\* cv.imread(path)
imread(path, files) == IF path \in files THEN "Image" ELSE "None"

\* process_image.read_image, lines 53-65
read_image ==
    /\ ipc = "call"
    /\ ifunc = "read_image"
    /\ img' = imread(img_filepath, ifiles)
    /\ ipc' = "returned"
    /\ UNCHANGED <<ifiles, ifunc, img_filepath, iflags, ierr>>
    /\ UNCHANGED image_others

\* Image.from_path, lines 36-47, called at line 298 of get_img_content
from_path ==
    /\ ipc = "call"
    /\ ifunc = "get_img_content"
    /\ IF img_filepath \notin ifiles
       THEN /\ ipc' = "raised"
            /\ ierr' = "FileNotFoundError"
            /\ UNCHANGED img
       ELSE /\ ipc' = "prepare"
            /\ img' = imread(img_filepath, ifiles)
            /\ UNCHANGED ierr
    /\ UNCHANGED <<ifiles, ifunc, img_filepath, iflags>>
    /\ UNCHANGED image_others

\* the files a step saves when save_proc_imgs is set (Image.debug, lines 66-76)
Saved(names) == IF iflags.save_proc_imgs THEN names ELSE {}

\* get_img_content, lines 300-304: Image.prepare, lines 214-230; get_contour
\* raises Exception when the edge map has no contour of four points
prepare ==
    /\ ipc = "prepare"
    /\ IF ~iflags.prepare_img
       THEN /\ ipc' = "binarize"
            /\ UNCHANGED <<ifiles, img, ierr>>
       ELSE \E found \in BOOLEAN :
              IF found
              THEN /\ ipc' = "binarize"
                   /\ img' = "Transformed"
                   /\ ifiles' = ifiles \cup Saved({"Resized.jpg", "Edged.jpg",
                                                   "Outlined.jpg", "Transformed.jpg"})
                   /\ UNCHANGED ierr
              ELSE /\ ipc' = "raised"
                   /\ ierr' = "Exception"
                   /\ ifiles' = ifiles \cup Saved({"Resized.jpg", "Edged.jpg"})
                   /\ UNCHANGED img
    /\ UNCHANGED <<ifunc, img_filepath, iflags>>
    /\ UNCHANGED image_others

\* get_img_content, lines 306-310: Image.binarize, lines 232-242
binarize ==
    /\ ipc = "binarize"
    /\ IF iflags.binarize_img
       THEN /\ img' = "Binarized"
            /\ ifiles' = ifiles \cup Saved({"Binarized.jpg"})
       ELSE UNCHANGED <<img, ifiles>>
    /\ ipc' = "content"
    /\ UNCHANGED <<ifunc, img_filepath, iflags, ierr>>
    /\ UNCHANGED image_others

\* get_img_content, lines 312-320: Image.get_content, lines 244-264
get_content ==
    /\ ipc = "content"
    /\ ifiles' = IF iflags.write_content THEN ifiles \cup {"raw_content.txt"} ELSE ifiles
    /\ ipc' = "returned"
    /\ UNCHANGED <<ifunc, img_filepath, iflags, img, ierr>>
    /\ UNCHANGED image_others

NextImage ==
    \/ read_image
    \/ from_path
    \/ prepare
    \/ binarize
    \/ get_content

SpecImage == InitImage /\ [][NextImage]_vars

\* ------------------------------------------------------------ get_new_values
\* get_new_values, lines 243-279, called on its own with the arguments
\* correct_discounted_items and correct_wrong_items give it.  values is the
\* dictionary initial_values itself (line 262), so a round starts from what
\* the round before left in it.
ValuesCalls ==
    {[func |-> "is_total_price_correct", props |-> TotalProps, initial_values |-> <<>>],
     [func |-> "is_final_price_correct", props |-> DiscProps, initial_values |-> <<>>]}
        \cup {[func |-> "is_final_price_correct", props |-> FinalProps,
               initial_values |-> [total_price |-> v]] : v \in MoneyValues}

\* func(values)
Check(func, values) ==
    IF func = "is_total_price_correct" THEN is_total_price_correct(values)
    ELSE is_final_price_correct(values)

values_others == <<pvars, xvars, nvars, mvars, cvars, bvars, ivars>>

InitValues ==
    /\ ProcessIdle
    /\ ExtractIdle
    /\ NormalizeIdle
    /\ MetadataIdle
    /\ ChecksIdle
    /\ SaveIdle
    /\ ImageIdle
    /\ gitem0 \in {it \in InitItems : it.qty # FalseV}
    /\ gitem = gitem0
    /\ \E call \in ValuesCalls :
        /\ gfunc = call.func
        /\ gprops = call.props
        /\ ginitial = call.initial_values
        /\ gvalues = call.initial_values
    /\ ganswers = <<>>
    /\ grounds = 0
    /\ gpc = "ask"
    /\ gret = NoRecord

\* lines 261-279: one round of the loop
get_new_values ==
    /\ gpc = "ask"
    /\ grounds < MaxRounds
    /\ grounds' = grounds + 1
    /\ \E answers \in AnswersFor(gprops) :
        /\ ganswers' = answers
        /\ gvalues' = RoundValues(gitem, gprops, answers, gvalues)
    /\ IF Check(gfunc, gvalues')
       THEN /\ gret' = gvalues'
            /\ gpc' = "returned"
       ELSE UNCHANGED <<gret, gpc>>
    /\ UNCHANGED <<gitem0, gitem, gfunc, gprops, ginitial>>
    /\ UNCHANGED values_others

NextValues == get_new_values

SpecValues == InitValues /\ [][NextValues]_vars

\* ------------------------------------------------------------ claims
IsDiscounted(item) == ~IsNa(item.total_discount)

TotalPriceHolds(item) ==
    item.total_price = CalcTotalPrice(item.qty, item.unit_price)

FinalPriceHolds(item) ==
    item.final_price = CalcFinalPrice(item.total_price, item.total_discount)

Reconciled == pc = "returned" /\ terminal = "RECONCILED"
Accepted == pc = "returned" /\ terminal = "ACCEPTED_WITH_DISCREPANCY"

\* C1: in a record returned through the branch where the difference is zero,
\* every item has total_price = round(qty * unit_price, 2), and every item
\* with a discount has final_price = round(total_price - total_discount, 2).
C1_ReconciledItemsConsistent ==
    Reconciled =>
        \A i \in DOMAIN ret.items :
            /\ TotalPriceHolds(ret.items[i])
            /\ IsDiscounted(ret.items[i]) => FinalPriceHolds(ret.items[i])

\* a reconciled record with two items, one of them discounted, that the
\* operator's answers changed
C1_Witness ==
    /\ Reconciled
    /\ Len(ret.items) = 2
    /\ \E i \in DOMAIN ret.items :
        /\ IsDiscounted(ret.items[i])
        /\ ret.items[i].total_discount # 0
        /\ ret.items[i].total_price # input0.items[i].total_price
        /\ ret.items[i].final_price # input0.items[i].final_price

\* C2, as stated: in a record returned as RECONCILED,
\* round(sum of final_price, 2) = total_sum.
C2_RoundedSumIsTotal ==
    Reconciled => Round2(SumFinal(ret.items)) = ret.total_sum

\* C2, amended: in a record returned as RECONCILED, the difference between
\* total_sum and the sum of the final prices of the items of the returned
\* record rounds to zero: round(abs(total_sum - sum), 2) = 0.
C2_RoundedDiffIsZero ==
    Reconciled => Round2(Abs(ret.total_sum - SumFinal(ret.items))) = 0

\* a reconciled record of two items whose total the operator set, to an
\* amount with a third decimal
C2_Witness ==
    /\ Reconciled
    /\ Len(ret.items) = 2
    /\ ret.total_sum # input0.total_sum
    /\ ret.total_sum % 10 # 0

\* C3: a record is returned only when the difference is zero, or when it is
\* not and the operator has confirmed the total and declined to add items.
C3_ReturnOnlyReconciledOrAccepted ==
    pc = "returned" =>
        LET d == Round2(Abs(ret.total_sum - SumFinal(ret.items)))
        IN  \/ d = 0 /\ terminal = "RECONCILED"
            \/ /\ d # 0
               /\ terminal = "ACCEPTED_WITH_DISCREPANCY"
               /\ is_correct = "yes"
               /\ do_add_items = "no"

\* a record returned with a difference left
C3_Witness ==
    /\ Accepted
    /\ ret.items # <<>>
    /\ Round2(Abs(ret.total_sum - SumFinal(ret.items))) # 0

\* C4: the returned record is tagged with its terminal state and, when
\* accepted with a discrepancy, carries the difference: it has a field
\* beyond those of the record it was made from.
C4_ReturnedRecordIsTagged ==
    pc = "returned" => DOMAIN ret # DOMAIN input0

\* the arithmetic invariants of the data model, on a record
SatisfiesInvariants(record) ==
    /\ \A i \in DOMAIN record.items :
        LET item == record.items[i]
        IN  /\ \A k \in DOMAIN Props : item[Props[k]] # FalseV
            /\ TotalPriceHolds(item)
            /\ IF IsDiscounted(item) THEN FinalPriceHolds(item)
               ELSE item.final_price = item.total_price
    /\ Round2(SumFinal(record.items)) = record.total_sum

\* C5: for a record that satisfies the arithmetic invariants no prompt is
\* issued, and process_content ends by returning it unchanged as RECONCILED.
C5_ConsistentRecordPassesUntouched ==
    SatisfiesInvariants(input0) =>
        /\ prompts = 0
        /\ pc \in {"returned", "raised"} =>
            /\ Reconciled
            /\ ret.items = input0.items
            /\ ret.total_sum = input0.total_sum

\* C6: correct_wrong_items runs rounds of its qty / unit_price / total_price
\* prompt for exactly the rows that fail the total-price check, one round
\* where the first answers pass, and leaves every other row as it was.
C6_OneRoundForWrongItemsOnly ==
    pc \in {"wrong", "wrong_disc"} =>
        \A i \in DOMAIN entry_df :
            /\ first_ok[i] => rounds[i] = 1
            /\ TotalPriceHolds(entry_df[i]) =>
                rounds[i] = 0 /\ items_df[i] = entry_df[i]
            /\ (pc = "wrong" /\ todo = <<>> /\ ~TotalPriceHolds(entry_df[i])) =>
                rounds[i] >= 1

\* correct_wrong_items is done with two rows: one failed the check and was
\* corrected in one round, the other passed
C6_Witness ==
    /\ pc = "wrong"
    /\ todo = <<>>
    /\ \E i, j \in DOMAIN entry_df :
        /\ ~TotalPriceHolds(entry_df[i])
        /\ first_ok[i]
        /\ rounds[i] = 1
        /\ items_df[i] # entry_df[i]
        /\ TotalPriceHolds(entry_df[j])

\* ---- get_split_text and get_items
HasMarker(line) == Contains(line, Str_OPUST)

get_split_text_returned == xpc \in {"rows", "done"}

\* C7: for every text on which get_split_text returns, every group of the
\* result has exactly 1 element (ordinary row) or exactly 3 elements (item
\* line, discount-marker line, corrected-final-price line), also when two
\* discount blocks follow the same item line
C7_GroupsOfOneOrThree ==
    get_split_text_returned =>
        \A g \in DOMAIN split_text : Len(split_text[g]) \in {1, 3}

\* C8: when the first non-empty line of the text contains the marker 'OPUST',
\* or a line containing it is the last non-empty line, get_split_text fails
\* with a MalformedDiscountBlock error: it neither raises an index error nor
\* returns groups
C8_MarkerEdgeRaisesMalformedDiscountBlock ==
    LET lines == NonEmptyLines(text)
    IN  (/\ xpc # "start"
         /\ lines # <<>>
         /\ HasMarker(lines[1]) \/ HasMarker(lines[Len(lines)]))
        => (xpc = "raised" /\ xerr = "MalformedDiscountBlock")

MilkItem ==
    [name |-> <<"M", "i", "l", "k">>, qty |-> 1000, unit_price |-> 10000,
     total_price |-> 10000, total_discount |-> 2000, final_price |-> 8000]

get_items_ended == xpc \in {"done", "raised"}

\* C9 as stated: for the text 'Milk 1 x 10.00 10.00' / 'OPUST -2.00' / '8.00'
\* get_split_text yields one 3-element group and get_items yields exactly one
\* item: Milk, qty 1, unit_price 10.00, total_price 10.00, total_discount
\* 2.00, final_price 8.00
C9_MilkRowParsed ==
    (text = Join(<<Row_Milk, Row_Discount, Row_FinalPrice>>) /\ get_items_ended)
        => (/\ xpc = "done"
            /\ split_text = <<<<Row_Milk, Row_Discount, Row_FinalPrice>>>>
            /\ items = <<MilkItem>>)

\* C9 amended: for the text 'Milk A 1 x10.00 10.00' / 'OPUST -2.00' / '8.00',
\* whose item row has the one or two character token between name and
\* quantity and no space after the 'x', get_split_text yields one 3-element
\* group and get_items yields exactly that one item
C9_MilkRowWithSeparatorParsed ==
    (text = Join(<<Row_MilkA, Row_Discount, Row_FinalPrice>>) /\ get_items_ended)
        => (/\ xpc = "done"
            /\ split_text = <<<<Row_MilkA, Row_Discount, Row_FinalPrice>>>>
            /\ items = <<MilkItem>>)

C9_Witness ==
    /\ text = Join(<<Row_MilkA, Row_Discount, Row_FinalPrice>>)
    /\ xpc = "done"
    /\ Len(split_text) = 1
    /\ Len(items) = 1
    /\ items[1].total_discount = 2000

\* ---- replace_invalid_chars
InvalidChars == {Mapper[k][1] : k \in DOMAIN Mapper}

\* C10: replace_invalid_chars is idempotent, its result does not depend on
\* the order in which the entries of the mapper are applied, and every
\* character that is not a listed wrong character stays as it is, where it is
C10_NormalizeIdempotentOrderFree ==
    LET result == replace_invalid_chars(ntext)
    IN  /\ replace_invalid_chars(result) = result
        /\ applied = DOMAIN Mapper => new_text = result
        /\ Len(result) = Len(ntext)
        /\ \A i \in DOMAIN ntext :
               ntext[i] \notin InvalidChars => result[i] = ntext[i]

C10_Witness ==
    /\ applied = DOMAIN Mapper
    /\ Len(ntext) = MaxTextLen
    /\ \E i \in DOMAIN ntext : ntext[i] \in InvalidChars
    /\ \E i \in DOMAIN ntext : ntext[i] \notin InvalidChars
    /\ new_text # ntext

\* ---- get_items: rows outside the grammars
\* every line with the marker has a line before it and a line after it
MarkersEnclosed(s) ==
    LET lines == NonEmptyLines(s)
    IN  \A i \in DOMAIN lines : HasMarker(lines[i]) => 1 < i /\ i < Len(lines)

\* the groups whose item line matches the item grammar
MatchingGroups(groups) ==
    {g \in DOMAIN groups : get_item_strings(groups[g][1]) # NoRecord}

\* C11: for a text in which every discount marker has a line before and a
\* line after it, get_items completes and returns one item for each row that
\* matches the item grammar: a marker line or a final price line outside the
\* price grammar never makes it raise
C11_GetItemsCompletes ==
    (get_items_ended /\ MarkersEnclosed(text))
        => (/\ xpc = "done"
            /\ Len(items) = Cardinality(MatchingGroups(split_text)))

\* C12: with do_correct=False no input is requested, and an item whose
\* matched substring cannot be converted to a number is still returned, at
\* its position among the items of the matching rows, with the failing
\* property set to False and the others to their numbers
C12_UnsetValueKeepsItem ==
    (~do_correct /\ xpc = "done") =>
        LET groups == SeqOfSet(MatchingGroups(split_text))
        IN  /\ xprompts = 0
            /\ Len(items) = Len(groups)
            /\ \A k \in DOMAIN groups :
                   LET strings == get_item_strings(split_text[groups[k]][1])
                   IN  /\ items[k].name = strings.name
                       /\ \A key \in {"qty", "unit_price", "total_price"} :
                              items[k][key] = Float(strings[key])

\* two items returned, the second with a unit price that is no number
C12_Witness ==
    /\ ~do_correct
    /\ xpc = "done"
    /\ Len(items) = 2
    /\ items[1].unit_price = 10000
    /\ items[2].unit_price = FalseV
    /\ items[2].qty = 1000
    /\ items[2].total_price = 10000

\* ---- discount rows
\* 'OPUST -D', D an amount printed with integer digits, a decimal separator
\* and two fraction digits
IsDiscountRow(line) ==
    /\ Len(line) >= 11
    /\ SubStr(line, 1, 7) = Str_OPUST \o <<" ", "-">>
    /\ AllIn(SubStr(line, 8, Len(line) - 3), Digit)
    /\ line[Len(line) - 2] \in {",", "."}
    /\ AllIn(SubStr(line, Len(line) - 1, Len(line)), Digit)

\* the amount D of a discount row
PrintedDiscount(line) ==
    1000 * DigitsValue(SubStr(line, 8, Len(line) - 3))
        + 10 * DigitsValue(SubStr(line, Len(line) - 1, Len(line)))

\* C13: the total_discount of an item with a discount row 'OPUST -D' is the
\* amount D with all its integer digits (12.00 for 'OPUST -12,00'), neither
\* negative nor truncated
C13_DiscountIsPrintedAmount ==
    xpc = "done" =>
        LET groups == SeqOfSet(MatchingGroups(split_text))
        IN  \A k \in DOMAIN groups :
                LET line == split_text[groups[k]]
                IN  (Len(line) > 1 /\ IsDiscountRow(line[2]) /\ k \in DOMAIN items)
                        => items[k].total_discount = PrintedDiscount(line[2])

\* ---- get_shop_name
HasName(s, possible_name) == Contains(Lower(s), possible_name)

\* C14: get_shop_name matches without regard to case and returns the first
\* of Biedronka, Rossmann, Zabka one of whose names is in the text, wherever
\* in the text the names are
C14_FirstShopInTableOrder ==
    (spc = "done" /\ shop # NotRecognized) =>
        shop = IF HasName(sarg, <<"b", "i", "e", "d", "r", "o", "n", "k", "a">>)
               THEN "Biedronka"
               ELSE IF HasName(sarg, <<"r", "o", "s", "s", "m", "a", "n", "n">>)
               THEN "Rossmann"
               ELSE IF HasName(sarg, <<"z.", "a", "b", "k", "a">>)
                       \/ HasName(sarg, <<"z", "a", "b", "k", "a">>)
               THEN "Z.abka"
               ELSE "no shop"

\* Biedronka returned for a text that names Rossmann first, and Biedronka
\* in capitals
C14_Witness ==
    /\ spc = "done"
    /\ shop = "Biedronka"
    /\ sarg = Join(<<<<"R", "o", "s", "s", "m", "a", "n", "n">>, <<"B", "I", "E", "D", "R", "O", "N", "K", "A">>>>)

\* ---- get_shopping_date
\* four digits, dash, two digits, dash, two digits, and nothing else
IsDateString(s) ==
    /\ Len(s) = 10
    /\ \A i \in {1, 2, 3, 4, 6, 7, 9, 10} : s[i] \in Digit
    /\ s[5] = "-"
    /\ s[8] = "-"

\* C15: get_shopping_date returns a string that is a date in full, or None;
\* None only when no date is in the text and do_correct is False; an entry
\* of the operator that is not a date in full is asked for again, never
\* returned
C15_ReturnsFullDateOrNone ==
    /\ dpc = "done" =>
           \/ IsDateString(date)
           \/ date = NoDate /\ ~ddo_correct /\ DateSearch(dtext) = <<>>
    /\ dpc = "input" => date = <<>>

\* a date returned that the operator entered, after an entry that was not one
C15_Witness ==
    /\ dpc = "done"
    /\ dprompts = 2
    /\ IsDateString(date)
    /\ date # DateSearch(dtext)
    /\ DateSearch(dtext) # <<>>

\* ---- the checks
\* C16: a call of is_total_price_correct, is_final_price_correct or
\* get_total_sum_diff leaves the item data, the record and the items table
\* it was given as they were, and asks the operator nothing
C16_ChecksLeaveArguments ==
    [][vcalls' # vcalls =>
          /\ vdata' = vdata
          /\ vcontent' = vcontent
          /\ vitems_df' = vitems_df
          /\ vprompts' = vprompts]_vars

\* the three checks called, on a record with items
C16_Witness ==
    /\ vcalls = {"is_total_price_correct", "is_final_price_correct",
                 "get_total_sum_diff"}
    /\ vcontent.items # <<>>
    /\ vprompts = 0

\* every final price and the total of the record is an amount in whole cents
InWholeCents(record) ==
    /\ record.total_sum >= 0
    /\ record.total_sum % 10 = 0
    /\ \A i \in DOMAIN record.items :
           record.items[i].final_price >= 0 /\ record.items[i].final_price % 10 = 0

C18_NewTotalIsRechecked ==
    [][/\ (pc = "set_total" /\ pc' # pc) =>
            /\ diff # 0
            /\ is_correct = "no"
            /\ content'.total_sum \in NumAnswers("total_sum")
            /\ content'.items = content.items
            /\ items_df' = items_df
            /\ pc' = "loop"
       /\ (pc = "loop" /\ pc' # pc) =>
            /\ diff' = get_total_sum_diff(content.total_sum, items_df)
            /\ terminal' = "RECONCILED" <=> diff' = 0
            /\ diff' # 0 => pc' = "ask_total"]_vars

\* a record returned as RECONCILED after the operator set its total, to an
\* amount in whole cents
C18_Witness ==
    /\ Reconciled
    /\ retries = 1
    /\ is_correct = "no"
    /\ ret.total_sum # input0.total_sum
    /\ ret.total_sum % 10 = 0
    /\ ret.total_sum = SumFinal(ret.items)

\* get_new_item was called and is over
get_new_item_ended == do_add_items = "yes" /\ pc # "new_item"

\* C19: get_new_item returns an item for every name, quantity, unit price
\* and discount entered, with total_price = round(qty * unit_price, 2), with
\* final_price = total_price and no total_discount when the discount is
\* zero, and with final_price = total_price - discount otherwise
C19_NewItemReturned ==
    get_new_item_ended =>
        /\ pc # "raised"
        /\ new_items # <<>>
        /\ \A i \in DOMAIN new_items :
               LET item == new_items[i]
               IN  /\ item.total_price = CalcTotalPrice(item.qty, item.unit_price)
                   /\ item.final_price =
                          IF item.total_discount = NoneV THEN item.total_price
                          ELSE item.total_price - item.total_discount

\* C20: when the operator chooses to add items, each item entered is added
\* to new_items; once the operator stops, the record's items are the
\* existing ones followed by the new ones, the difference is computed again
\* over the enlarged list, the record is RECONCILED when it is zero, and
\* the operator is asked about the total again when it is not
C20_AddedItemsAppendedAndRechecked ==
    [][(pc = "new_item" /\ pc' # pc) =>
          /\ new_items' = Append(new_items, new_item')
          /\ content'.items = content.items \o new_items'
          /\ diff' = get_total_sum_diff(content'.total_sum, ToFrame(content'.items))
          /\ terminal' = "RECONCILED" <=> diff' = 0
          /\ diff' # 0 => pc' = "ask_total"
          /\ err' = ""]_vars

\* C21: in the items that get_items hands to process_content and
\* write_content, total_discount is null (None) for every item whose row has
\* no discount block, and is set only for the items that have one
C21_NoDiscountBlockLeavesNull ==
    xpc = "done" =>
        LET groups == SeqOfSet(MatchingGroups(split_text))
        IN  \A k \in DOMAIN groups :
                k \in DOMAIN items =>
                    /\ Len(split_text[groups[k]]) = 1 => items[k].total_discount = NoneV
                    /\ Len(split_text[groups[k]]) > 1 => items[k].total_discount # NoneV

\* ---- save_content_in_db
\* the rows of a receipt in the tables
RowsOfReceipt(tables, rid) ==
    {r \in tables.receipt : r = rid}
        \cup {r \in tables.invalid_item : r.receipt_id = rid}
        \cup {r \in tables.all_items : r.receipt_id = rid}

\* C22: when save_content_in_db is left by an exception (ambiguous unit
\* prices, or a failure while names or items are added), the step that
\* raises commits nothing and no later step does: the committed tables stay
\* as they were, and hold no receipt row, invalid-name row or item row of
\* that receipt
C22_AbortedSavePersistsNothing ==
    [][save_err' # "" =>
          /\ db' = db
          /\ save_err' \in {"ValueError", "DatabaseError"}
                => RowsOfReceipt(db', receipt_id') = {}]_vars

\* a save ended on ambiguous unit prices after the receipt row, a valid name
\* and an invalid name had been written
C22_Witness ==
    /\ save_pc = "ended"
    /\ save_err = "ValueError"
    /\ tx.receipt # db.receipt
    /\ tx.item # db.item
    /\ tx.invalid_item # db.invalid_item

\* C30: every name get_valid_name has returned is in the table 'item', and
\* every valid_name of a row of 'invalid_item' is in 'item', in the tables
\* the cursor sees and in the committed ones
C30_ValidNamesPresent ==
    /\ \A r \in tx.invalid_item : r.valid_name \in tx.item
    /\ \A r \in db.invalid_item : r.valid_name \in db.item
    /\ save_pc = "names" =>
          \A i \in 1..(save_i - 1) : save_items[i].name \in tx.item

\* get_valid_name has added an invalid name and its valid name
C30_Witness ==
    /\ save_pc = "names"
    /\ save_i > 1
    /\ \E r \in tx.invalid_item \ db.invalid_item :
          r.valid_name \in tx.item \ db.item

\* ---- the order of the checks in process_content
\* a step that asks the operator for new values
Prompted == prompts' # prompts

\* C23 as stated: the final-price correction (over total price / discount /
\* final price) is requested for an item only when its total_price equals
\* round(qty * unit_price, 2)
C23_FinalPriceAfterTotalPrice ==
    [][/\ (pc = "discounted" /\ Prompted) => TotalPriceHolds(items_df[Head(todo)])
       /\ (pc = "wrong_disc" /\ Prompted) => TotalPriceHolds(pending)]_vars

\* C23 amended: correct_discounted_items asks for total price / discount /
\* final price of every discounted item whose final price is wrong, before
\* any total-price check; in correct_wrong_items the final-price correction
\* over discount / final price is requested only after the values entered
\* for the item have passed the total-price check
C23_FinalPriceFirstThenAfterTotalPrice ==
    [][/\ (pc = "discounted" /\ Prompted) =>
             /\ IsDiscounted(items_df[Head(todo)])
             /\ ~FinalPriceHolds(items_df[Head(todo)])
             /\ \A i \in DOMAIN rounds : rounds[i] = 0
       /\ (pc = "wrong_disc" /\ Prompted) => TotalPriceHolds(pending)
       /\ pc \in {"wrong", "wrong_disc"} => pc' # "discounted"]_vars

\* a final-price correction is requested in correct_wrong_items, after the
\* new values passed the total-price check
C23_Witness ==
    /\ pc = "wrong_disc"
    /\ pending # NoRecord
    /\ TotalPriceHolds(pending)
    /\ prompts >= 3

\* ---- reading an image
\* C24: a call with a path that names no existing file ends with
\* FileNotFoundError, for read_image and for get_img_content, with no image
\* read and no processed image or content file written
C24_MissingImageRaises ==
    (img_filepath \notin ifiles /\ ipc \notin {"idle", "call"}) =>
        /\ ipc = "raised"
        /\ ierr = "FileNotFoundError"
        /\ img = NoImage
        /\ ifiles \cap OutputFiles = {}

\* ---- get_new_values
\* C25: after every round of get_new_values, the first and the ones after a
\* rejected attempt, each property asked for holds the operator's entry or,
\* for an empty answer, the value of the item as passed in; the item is as
\* it was passed in; and what is returned passes the check function
C25_ValuesFromEntriesOrItem ==
    /\ gitem = gitem0
    /\ grounds > 0 =>
          \A p \in gprops :
              gvalues[p] = IF ganswers[p] = SkipV THEN gitem0[p] ELSE ganswers[p]
    /\ gpc = "returned" => gret = gvalues /\ Check(gfunc, gret)

\* values are returned in the second round, one of them left as in the item
C25_Witness ==
    /\ gpc = "returned"
    /\ grounds = 2
    /\ \E p \in gprops : ganswers[p] = SkipV /\ gret[p] = gitem0[p]

\* ---- correct_missing_properties
\* C26: the cells correct_missing_properties asks a new value for are the
\* cells that hold the unset value False; a cell holding a zero (a
\* total_discount of 0.0, a quantity or a price of 0) is not among them
C26_OnlyUnsetCellsPrompted ==
    pc = "missing" =>
        \A k \in DOMAIN todo : items_df[todo[k][1]][todo[k][2]] = FalseV

\* ---- extract_content with do_correct=False
\* C27: with do_correct=False the shopping date is extracted from the text
\* or set to its sentinel without the operator being asked anything, whether
\* or not a date is in the text
C27_NoQuestionWithoutDoCorrect ==
    ~ddo_correct =>
        /\ dpc \notin {"confirm", "input"}
        /\ dprompts = 0
        /\ dpc = "done" => date \in {DateSearch(dtext), NoDate}

\* ---- the end of process_content
\* the bound of the model on rejected answers is met
Exhausted == retries = MaxRetries

\* C28: once the operator is asked about the total, whatever is chosen
\* (correct the total, add items, accept), process_content goes on to
\* return in RECONCILED or ACCEPTED_WITH_DISCREPANCY, and does not end in an
\* exception
C28_ChoicesLeadToTerminal ==
    (pc = "ask_total") ~>
        \/ pc = "returned" /\ terminal \in {"RECONCILED", "ACCEPTED_WITH_DISCREPANCY"}
        \/ Exhausted /\ pc # "raised"

\* ---- the order of the items
\* the names of a list of items, in its order
Names(list) == [i \in DOMAIN list |-> list[i].name]

\* C29: the items get_items returns are the rows that match the item
\* grammar, in the order of the text; the table process_content corrects,
\* the items it writes back and the record it returns hold the items of the
\* record it was given, in the same order, none dropped, none duplicated
C29_ItemOrderPreserved ==
    /\ xpc = "done" =>
          LET groups == SeqOfSet(MatchingGroups(split_text))
          IN  /\ Len(items) = Len(groups)
              /\ \A k \in DOMAIN items :
                    LET strings == get_item_strings(split_text[groups[k]][1])
                    IN  /\ items[k].name = strings.name
                        /\ Float(strings.unit_price) # FalseV =>
                               items[k].unit_price = Float(strings.unit_price)
                        /\ Float(strings.unit_price) = FalseV =>
                               items[k].unit_price \in EnteredValues \cup {FalseV}
    /\ pc \notin {"idle", "start"} =>
          /\ Names(items_df) = Names(input0.items)
          /\ Names(content.items) = Names(input0.items)
    /\ pc = "returned" => Names(ret.items) = Names(input0.items)

\* a record of two items returned with a value corrected
C29_Witness ==
    /\ pc = "returned"
    /\ Len(ret.items) = 2
    /\ ret.items # input0.items
    /\ Names(ret.items) = <<NameAt(1), NameAt(2)>>

====
